---- MODULE Spec2Model ----
(***************************************************************************)
(* A model of the ublox-sockets socket layer: the fixed-capacity socket    *)
(* set (set.rs), the socket union and its downcast (lib.rs), the TCP and   *)
(* UDP sockets (tcp.rs, udp.rs) and the ring buffer each socket owns.      *)
(*                                                                         *)
(* Conventions.  An Option is a sequence: <<>> is None and <<x>> is        *)
(* Some(x).  A Result is <<"Ok", v>> or <<"Err", e>>.  A TCP state is      *)
(* <<"Created">>, <<"WaitingForConnect", addr>>, <<"Connected", addr>> or  *)
(* <<"ShutdownForWrite", instant>>.  Instants are timer ticks.             *)
(***************************************************************************)
EXTENDS Integers, Sequences, FiniteSets, TLC

VARIABLES sockets, clock, res, tcp, unread, udp, fired, ring, enq, deq, listener

vars == <<sockets, clock, res, tcp, unread, udp, fired, ring, enq, deq, listener>>
\* The variables of the availability poll and of the ring buffer on its own.
pollVars == <<udp, fired>>
ringVars == <<ring, enq, deq>>

(***************************************************************************)
(* Bounds of the model.                                                    *)
(***************************************************************************)
\* set.rs:250, the slots of the socket set: the const generic N of the tests.
N == 2
\* Socket ids run over 0..MaxHandle: one more id than there are slots.
MaxHandle == 2
\* Capacity of a socket's receive ring buffer (the const generic L).
L == 2
\* Octets are drawn from 1..MaxByte; 0 is the filler of unwritten storage.
MaxByte == 2
\* Early instants are 0..MaxT0; late instants lie around the timeout.
MaxT0 == 1
\* set_available_data receives 0..MaxAvail.
MaxAvail == 1
\* The ring buffer on its own accepts at most MaxEnq octets in all.
MaxEnq == 4
\* Listener ports are 1..MaxPort.
MaxPort == 2
\* Pending connections carry the socket handles 0..MaxRemote.
MaxRemote == 1

(***************************************************************************)
(* Program constants.                                                      *)
(***************************************************************************)
\* set.rs:197, the timer frequency: ticks per second.
TIMER_HZ == 1000
\* tcp.rs:65 and udp.rs:49, read_timeout: Some(15 seconds).
READ_TIMEOUT_SECS == 15
\* tcp.rs:64 and udp.rs:47, check_interval: 15 seconds.
CHECK_INTERVAL_SECS == 15
\* tcp_listener.rs:6 and udp_listener.rs:7, the const generics of the
\* listeners, instantiated here as TcpListener<2, 3> and UdpListener<2, 3>:
\* each of the two maps holds ListenerN entries and each queue, an
\* spsc::Queue<_, QueueL>, holds QueueL - 1.
ListenerN == 2
QueueL == 3

Handles == 0..MaxHandle
Addrs == {1}
TimeoutTicks == READ_TIMEOUT_SECS * TIMER_HZ
\* The instants the callers supply: early ones, and the ones around an
\* early instant plus the timeout.
Times == (0..MaxT0) \cup ((TimeoutTicks - 1)..(TimeoutTicks + MaxT0))
\* The instants of the polls: those, and the same one check interval later.
PollTimes == Times \cup {t + CHECK_INTERVAL_SECS * TIMER_HZ : t \in Times}
Bytes == 1..MaxByte
\* The slices a driver enqueues: each single octet, and for each length up
\* to L + 1 the slice 1, 2, .. that cycles through the octets.
Slices ==
    {<<b>> : b \in Bytes}
    \cup {[k \in 1..n |-> ((k - 1) % MaxByte) + 1] : n \in 0..(L + 1)}
OutLens == 0..(L + 1)
\* The endpoints a UdpSocket is bound to.
Endpoints == {1, 2}
\* The ports a listener is bound to, and the pending connections pushed.
Ports == 1..MaxPort
RemoteAddrs == {1, 2}
Remotes == {<<h, (h % 2) + 1>> : h \in 0..MaxRemote}

None == <<>>
Some(x) == <<x>>
Ok(v) == <<"Ok", v>>
Err(e) == <<"Err", e>>
IsOk(r) == r[1] = "Ok"
IsErr(r) == r[1] = "Err"
Min(a, b) == IF a <= b THEN a ELSE b

(***************************************************************************)
(* RingBuffer<u8, L>: storage, read_at and length.                         *)
(***************************************************************************)
RingNew == [storage |-> [i \in 1..L |-> 0], read_at |-> 0, length |-> 0]
RingCapacity(rb) == Len(rb.storage)
RingLen(rb) == rb.length
RingIsEmpty(rb) == rb.length = 0
RingIsFull(rb) == rb.length = RingCapacity(rb)
RingWindow(rb) == RingCapacity(rb) - rb.length
\* Physical index (0-based) of the logical offset idx.
RingGetIdx(rb, idx) == (rb.read_at + idx) % RingCapacity(rb)
\* The octets held, oldest first, read across the wrap boundary.
RingContents(rb) == [k \in 1..rb.length |-> rb.storage[RingGetIdx(rb, k - 1) + 1]]

\* Mutant of RingEnqueueSlice: the capacity limits the copy, not the window.
RingEnqueueSliceOverwrite(rb, data) ==
    LET n == Min(Len(data), RingCapacity(rb))
        at(k) == RingGetIdx(rb, rb.length + k - 1) + 1
        written == {at(k) : k \in 1..n}
        src(p) == CHOOSE k \in 1..n : at(k) = p
    IN [rb |-> [rb EXCEPT !.storage = [p \in 1..RingCapacity(rb) |->
                                         IF p \in written THEN data[src(p)]
                                         ELSE rb.storage[p]],
                          !.length = rb.length + n],
        ret |-> n]

\* enqueue_slice: copies as many octets as fit; [rb, ret] with ret the count.
RingEnqueueSlice(rb, data) ==
    LET n == Min(Len(data), RingWindow(rb))
        at(k) == RingGetIdx(rb, rb.length + k - 1) + 1
        written == {at(k) : k \in 1..n}
        src(p) == CHOOSE k \in 1..n : at(k) = p
    IN [rb |-> [rb EXCEPT !.storage = [p \in 1..RingCapacity(rb) |->
                                         IF p \in written THEN data[src(p)]
                                         ELSE rb.storage[p]],
                          !.length = rb.length + n],
        ret |-> n]

\* Removes the size oldest octets.
RingAdvance(rb, size) ==
    [rb EXCEPT !.read_at = (rb.read_at + size) % RingCapacity(rb),
               !.length = rb.length - size]

\* Mutant of RingDequeueSlice: the copy does not wrap, it stops at the last
\* cell of the storage.
RingDequeueSliceNoWrap(rb, outLen) ==
    LET n == Min(outLen, rb.length)
    IN [rb |-> RingAdvance(rb, n), ret |-> n,
        bytes |-> [k \in 1..n |-> rb.storage[Min(rb.read_at + k, RingCapacity(rb))]]]

\* dequeue_slice: copies up to outLen octets out, across the wrap boundary,
\* and removes them; [rb, ret, bytes].
RingDequeueSlice(rb, outLen) ==
    LET n == Min(outLen, rb.length)
    IN [rb |-> RingAdvance(rb, n), ret |-> n, bytes |-> SubSeq(RingContents(rb), 1, n)]

\* The largest contiguous readable span: from read_at to the physical end.
RingContiguousLen(rb) == Min(rb.length, RingCapacity(rb) - rb.read_at)

\* dequeue_many_with(f): f sees the contiguous span and reports how many
\* octets it consumed; here f consumes want octets, at most the span.
RingDequeueManyWith(rb, want) ==
    LET span == SubSeq(RingContents(rb), 1, RingContiguousLen(rb))
        n == Min(want, Len(span))
    IN [rb |-> RingAdvance(rb, n), ret |-> n, bytes |-> SubSeq(span, 1, n)]

\* dequeue_many_with_wrapping(f): f sees the first span and, when the read
\* wraps, the second; here f consumes want octets, at most what is held.
RingDequeueManyWithWrapping(rb, want) ==
    LET n == Min(want, rb.length)
    IN [rb |-> RingAdvance(rb, n), ret |-> n, bytes |-> SubSeq(RingContents(rb), 1, n)]

\* get_allocated(offset, size): a read-only view, bounded to the first
\* contiguous run.
RingGetAllocated(rb, offset, size) ==
    IF offset > rb.length THEN <<>>
    ELSE LET start_at == RingGetIdx(rb, offset)
             n == Min(Min(size, rb.length - offset), RingCapacity(rb) - start_at)
         IN [k \in 1..n |-> rb.storage[start_at + k]]

(***************************************************************************)
(* Time arithmetic of the sockets.                                         *)
(***************************************************************************)
\* Instant::checked_duration_since: None when ts is earlier than since.
CheckedDurationSince(ts, since) == IF ts >= since THEN Some(ts - since) ELSE None
\* Generic<ticks> -> Milliseconds<u32>, which fails only when the value does
\* not fit 32 bits; every duration between two instants of Times fits.
TicksToMillis(ticks) == Some((ticks * 1000) \div TIMER_HZ)
\* Milliseconds >= Seconds, compared as durations.
MillisGeSeconds(ms, secs) == ms >= secs * 1000
\* ts.checked_duration_since(since).and_then(|dur| dur.try_into().ok()).
MillisSince(ts, since) ==
    LET dur == CheckedDurationSince(ts, since)
    IN IF dur = None THEN None ELSE TicksToMillis(dur[1])

(***************************************************************************)
(* TcpSocket (tcp.rs).                                                     *)
(***************************************************************************)
TcpNew(socket_id) ==
    [type |-> "Tcp",
     meta |-> [handle |-> socket_id],
     state |-> <<"Created">>,
     check_interval |-> CHECK_INTERVAL_SECS,
     read_timeout |-> Some(READ_TIMEOUT_SECS),
     available_data |-> 0,
     rx_buffer |-> RingNew,
     last_check_time |-> None]

TcpStates ==
    {<<"Created">>}
    \cup {<<"WaitingForConnect", a>> : a \in Addrs}
    \cup {<<"Connected", a>> : a \in Addrs}
    \cup {<<"ShutdownForWrite", t>> : t \in Times}

TcpIsConnected(s) == s.state[1] = "Connected"

TcpSetState(s, state) == [s EXCEPT !.state = state]

TcpSetAvailableData(s, available_data) == [s EXCEPT !.available_data = available_data]

\* Mutant of TcpShouldUpdateAvailableData: every poll of a Connected socket
\* stamps last_check_time, also one that returns false.
TcpShouldUpdateAlwaysStamp(s, ts) ==
    IF ~TcpIsConnected(s) THEN [s |-> s, ret |-> FALSE]
    ELSE LET dur == IF s.last_check_time = None THEN None
                    ELSE MillisSince(ts, s.last_check_time[1])
             should_update == IF dur = None THEN TRUE
                              ELSE MillisGeSeconds(dur[1], s.check_interval)
         IN [s |-> [s EXCEPT !.last_check_time = Some(ts)], ret |-> should_update]

\* should_update_available_data: [s, ret].
TcpShouldUpdateAvailableData(s, ts) ==
    IF ~TcpIsConnected(s) THEN [s |-> s, ret |-> FALSE]
    ELSE LET dur == IF s.last_check_time = None THEN None
                    ELSE MillisSince(ts, s.last_check_time[1])
             should_update == IF dur = None THEN TRUE
                              ELSE MillisGeSeconds(dur[1], s.check_interval)
         IN [s |-> IF should_update THEN [s EXCEPT !.last_check_time = Some(ts)] ELSE s,
             ret |-> should_update]

\* Mutant of TcpRecycle: the timeout must be exceeded, not just reached.
TcpRecycleStrict(s, ts) ==
    IF s.read_timeout # None
    THEN IF s.state[1] \in {"Created", "WaitingForConnect", "Connected"}
         THEN FALSE
         ELSE LET dur == MillisSince(ts, s.state[2])
              IN IF dur = None THEN FALSE
                 ELSE dur[1] > s.read_timeout[1] * 1000
    ELSE FALSE

TcpRecycle(s, ts) ==
    IF s.read_timeout # None
    THEN IF s.state[1] \in {"Created", "WaitingForConnect", "Connected"}
         THEN FALSE
         ELSE LET dur == MillisSince(ts, s.state[2])
              IN IF dur = None THEN FALSE
                 ELSE MillisGeSeconds(dur[1], s.read_timeout[1])
    ELSE FALSE

\* Mutant of TcpClosedByRemote: only a Connected socket is shut down.
TcpClosedByRemoteIfConnected(s, ts) ==
    IF TcpIsConnected(s)
    THEN TcpSetAvailableData(TcpSetState(s, <<"ShutdownForWrite", ts>>), 0)
    ELSE s

TcpClosedByRemote(s, ts) ==
    TcpSetAvailableData(TcpSetState(s, <<"ShutdownForWrite", ts>>), 0)

\* Mutant of TcpMayRecv: buffered octets do not open the receive half.
TcpMayRecvStateOnly(s) == s.state[1] \in {"Connected", "ShutdownForWrite"}

TcpMayRecv(s) ==
    IF s.state[1] \in {"Connected", "ShutdownForWrite"} THEN TRUE
    ELSE IF ~RingIsEmpty(s.rx_buffer) THEN TRUE
    ELSE FALSE

TcpCanRecv(s) == IF ~TcpMayRecv(s) THEN FALSE ELSE ~RingIsFull(s.rx_buffer)

\* recv_impl(f): d is what f did to the receive buffer, [rb, ret, bytes].
TcpRecvImpl(s, d) ==
    IF ~TcpMayRecv(s) THEN [s |-> s, ret |-> Err("Illegal"), bytes |-> <<>>]
    ELSE [s |-> [s EXCEPT !.rx_buffer = d.rb], ret |-> Ok(d.ret), bytes |-> d.bytes]

\* recv(f) with an f that consumes want octets of the span it is shown.
TcpRecv(s, want) == TcpRecvImpl(s, RingDequeueManyWith(s.rx_buffer, want))

TcpRecvWrapping(s, want) ==
    TcpRecvImpl(s, RingDequeueManyWithWrapping(s.rx_buffer, want))

\* recv_slice(data) with data of length outLen.
TcpRecvSlice(s, outLen) == TcpRecvImpl(s, RingDequeueSlice(s.rx_buffer, outLen))

\* peek(size): ret is Ok(the view) or Err.
TcpPeek(s, size) ==
    IF ~TcpMayRecv(s) THEN [s |-> s, ret |-> Err("Illegal"), bytes |-> <<>>]
    ELSE LET buffer == RingGetAllocated(s.rx_buffer, 0, size)
         IN [s |-> s, ret |-> Ok(Len(buffer)), bytes |-> buffer]

\* peek_slice(data) with data of length outLen: copies the view into data.
TcpPeekSlice(s, outLen) ==
    LET p == TcpPeek(s, outLen)
    IN IF IsErr(p.ret) THEN p
       ELSE [s |-> p.s, ret |-> Ok(Len(p.bytes)), bytes |-> p.bytes]

TcpRxWindow(s) == RingWindow(s.rx_buffer)

TcpRxEnqueueSlice(s, data) ==
    LET e == RingEnqueueSlice(s.rx_buffer, data)
    IN [s |-> [s EXCEPT !.rx_buffer = e.rb], ret |-> e.ret]

TcpRecvQueue(s) == RingLen(s.rx_buffer)

(***************************************************************************)
(* UdpSocket (udp.rs).  Its time-sensitive calls read the clock            *)
(* themselves: now is the value Instant::now() returns.                    *)
(***************************************************************************)
UdpNew(socket_id) ==
    [type |-> "Udp",
     meta |-> [handle |-> socket_id],
     endpoint |-> None,
     check_interval |-> CHECK_INTERVAL_SECS * TIMER_HZ,
     read_timeout |-> Some(READ_TIMEOUT_SECS * TIMER_HZ),
     state |-> "Closed",
     available_data |-> 0,
     rx_buffer |-> RingNew,
     last_check_time |-> None,
     closed_time |-> None]

\* Meta::update (meta.rs).
MetaUpdate(meta, handle) == [meta EXCEPT !.handle = handle]

UdpUpdateHandle(s, handle) == [s EXCEPT !.meta = MetaUpdate(s.meta, handle)]

UdpSetState(s, state) == [s EXCEPT !.state = state]

\* should_update_available_data: [s, ret].  now1 and now2 are the two
\* values Instant::now() returns, in the order the method reads them.
UdpShouldUpdateAvailableData(s, now1, now2) ==
    LET last == s.last_check_time
        dur == IF last = None THEN None ELSE CheckedDurationSince(now2, last[1])
    IN [s |-> [s EXCEPT !.last_check_time = Some(now1)],
        ret |-> IF dur = None THEN FALSE ELSE dur[1] >= s.check_interval]

\* Mutant of UdpRecycle: only a socket in the Closed state goes stale.
UdpRecycleIfClosed(s, now) ==
    IF s.read_timeout # None /\ s.state = "Closed"
    THEN LET dur == IF s.closed_time = None THEN None
                    ELSE CheckedDurationSince(now, s.closed_time[1])
         IN IF dur = None THEN FALSE ELSE dur[1] >= s.read_timeout[1]
    ELSE FALSE

UdpRecycle(s, now) ==
    IF s.read_timeout # None
    THEN LET dur == IF s.closed_time = None THEN None
                    ELSE CheckedDurationSince(now, s.closed_time[1])
         IN IF dur = None THEN FALSE ELSE dur[1] >= s.read_timeout[1]
    ELSE FALSE

UdpClosedByRemote(s, now) == [s EXCEPT !.closed_time = Some(now)]

UdpSetAvailableData(s, available_data) == [s EXCEPT !.available_data = available_data]

UdpRxWindow(s) == RingWindow(s.rx_buffer)

UdpIsOpen(s) == s.endpoint # None

\* Mutant of UdpBind: an open socket is bound again.
UdpBindAgain(s, endpoint) ==
    [s |-> [s EXCEPT !.endpoint = Some(endpoint)], ret |-> Ok(<<>>)]

\* bind(endpoint): [s, ret].
UdpBind(s, endpoint) ==
    IF UdpIsOpen(s) THEN [s |-> s, ret |-> Err("Illegal")]
    ELSE [s |-> [s EXCEPT !.endpoint = Some(endpoint)], ret |-> Ok(<<>>)]

UdpCanRecv(s) == ~RingIsFull(s.rx_buffer)

\* Mutant of UdpRecvImpl: the Established state opens the receive path, not
\* the bound endpoint.
UdpRecvImplIfEstablished(s, d) ==
    IF s.state # "Established" THEN [s |-> s, ret |-> Err("Illegal"), bytes |-> <<>>]
    ELSE [s |-> [s EXCEPT !.rx_buffer = d.rb], ret |-> Ok(d.ret), bytes |-> d.bytes]

\* recv_impl(f): d is what f did to the receive buffer, [rb, ret, bytes].
UdpRecvImpl(s, d) ==
    IF ~UdpIsOpen(s) THEN [s |-> s, ret |-> Err("Illegal"), bytes |-> <<>>]
    ELSE [s |-> [s EXCEPT !.rx_buffer = d.rb], ret |-> Ok(d.ret), bytes |-> d.bytes]

\* recv(f) with an f that consumes want octets of the span it is shown.
UdpRecv(s, want) == UdpRecvImpl(s, RingDequeueManyWith(s.rx_buffer, want))

\* recv_slice(data) with data of length outLen.
UdpRecvSlice(s, outLen) == UdpRecvImpl(s, RingDequeueSlice(s.rx_buffer, outLen))

UdpRxEnqueueSlice(s, data) ==
    LET e == RingEnqueueSlice(s.rx_buffer, data)
    IN [s |-> [s EXCEPT !.rx_buffer = e.rb], ret |-> e.ret]

\* peek(size): ret is Ok(the length of the view) or Err, bytes the view.
UdpPeek(s, size) ==
    IF ~UdpIsOpen(s) THEN [s |-> s, ret |-> Err("Illegal"), bytes |-> <<>>]
    ELSE LET buffer == RingGetAllocated(s.rx_buffer, 0, size)
         IN [s |-> s, ret |-> Ok(Len(buffer)), bytes |-> buffer]

\* peek_slice(data) with data of length outLen: copies the view into data.
UdpPeekSlice(s, outLen) ==
    LET p == UdpPeek(s, outLen)
    IN IF IsErr(p.ret) THEN p
       ELSE LET length == Min(outLen, Len(p.bytes))
            IN [s |-> p.s, ret |-> Ok(length), bytes |-> SubSeq(p.bytes, 1, length)]

UdpClose(s) == [s EXCEPT !.endpoint = None]

(***************************************************************************)
(* Socket, the union of the two, and its dispatch (lib.rs).                *)
(***************************************************************************)
SocketTypes == {"Tcp", "Udp"}

SocketHandle(socket) == socket.meta.handle

SocketGetType(socket) == socket.type

\* Mutant of SocketRecycle: a socket closed by the remote is stale at once.
SocketRecycleOnceClosed(socket, ts, now) ==
    IF socket.type = "Tcp" THEN socket.state[1] = "ShutdownForWrite"
    ELSE socket.closed_time # None

SocketRecycle(socket, ts, now) ==
    IF socket.type = "Tcp" THEN TcpRecycle(socket, ts) ELSE UdpRecycle(socket, now)

\* should_update_available_data: [s, ret].  The UdpSocket takes no instant
\* and reads the clock, now1 and then now2.
SocketShouldUpdateAvailableData(socket, ts, now1, now2) ==
    IF socket.type = "Tcp" THEN TcpShouldUpdateAvailableData(socket, ts)
    ELSE UdpShouldUpdateAvailableData(socket, now1, now2)

SocketClosedByRemote(socket, ts, now) ==
    IF socket.type = "Tcp" THEN TcpClosedByRemote(socket, ts)
    ELSE UdpClosedByRemote(socket, now)

\* Mutant of SocketRxEnqueueSlice: octets are taken only by a socket that
\* can be read, a TcpSocket that may_recv and a UdpSocket that is open.
SocketRxEnqueueSliceIfReadable(socket, data) ==
    IF socket.type = "Tcp"
    THEN IF TcpMayRecv(socket) THEN TcpRxEnqueueSlice(socket, data)
         ELSE [s |-> socket, ret |-> 0]
    ELSE IF UdpIsOpen(socket) THEN UdpRxEnqueueSlice(socket, data)
         ELSE [s |-> socket, ret |-> 0]

SocketRxEnqueueSlice(socket, data) ==
    IF socket.type = "Tcp" THEN TcpRxEnqueueSlice(socket, data)
    ELSE UdpRxEnqueueSlice(socket, data)

SocketRxWindow(socket) ==
    IF socket.type = "Tcp" THEN TcpRxWindow(socket) ELSE UdpRxWindow(socket)

\* Mutant of Downcast: the variant is not looked at.
DowncastUnchecked(T, socket) == Ok(socket)

\* AnySocket::downcast for T = TcpSocket and T = UdpSocket.
Downcast(T, socket) ==
    IF socket.type = T THEN Ok(socket) ELSE Err("Illegal")

(***************************************************************************)
(* Set (set.rs): N slots, each None or Some(socket).  Slot indices are     *)
(* 1-based here.                                                           *)
(***************************************************************************)
SetNew == [i \in 1..N |-> None]

SetCapacity(set) == N

SetLen(set) == Cardinality({i \in 1..Len(set) : set[i] # None})

SetIsEmpty(set) == SetLen(set) = 0

\* index_of: the first slot holding a socket with this handle.
IndexOf(set, handle) ==
    LET hits == {i \in 1..Len(set) :
                    IF set[i] # None THEN SocketHandle(set[i][1]) = handle ELSE FALSE}
    IN IF hits = {} THEN Err("InvalidSocket")
       ELSE Ok(CHOOSE i \in hits : \A j \in hits : i <= j)

SetSocketType(set, handle) ==
    LET index == IndexOf(set, handle)
    IN IF IsOk(index) /\ set[index[2]] # None
       THEN Some(SocketGetType(set[index[2]][1]))
       ELSE None

\* Mutant of SetAdd: no duplicate check.
SetAddNoDuplicateCheck(set, socket) ==
    LET empty == {i \in 1..Len(set) : set[i] = None}
    IN IF empty = {} THEN [set |-> set, ret |-> Err("SocketSetFull")]
       ELSE LET first == CHOOSE i \in empty : \A j \in empty : i <= j
            IN [set |-> [set EXCEPT ![first] = Some(socket)],
                ret |-> Ok(SocketHandle(socket))]

\* Mutant of SetAdd: a handle is a duplicate only of a socket of its own type.
SetAddSameTypeOnly(set, socket) ==
    LET handle == SocketHandle(socket)
        empty == {i \in 1..Len(set) : set[i] = None}
        dup == \E i \in 1..Len(set) :
                  /\ set[i] # None
                  /\ SocketHandle(set[i][1]) = handle
                  /\ SocketGetType(set[i][1]) = SocketGetType(socket)
    IN IF dup THEN [set |-> set, ret |-> Err("DuplicateSocket")]
       ELSE IF empty = {} THEN [set |-> set, ret |-> Err("SocketSetFull")]
       ELSE LET first == CHOOSE i \in empty : \A j \in empty : i <= j
            IN [set |-> [set EXCEPT ![first] = Some(socket)], ret |-> Ok(handle)]

\* Mutant of SetAdd: the empty slot is looked for before the duplicate.
SetAddFullFirst(set, socket) ==
    LET handle == SocketHandle(socket)
        empty == {i \in 1..Len(set) : set[i] = None}
    IN IF empty = {} THEN [set |-> set, ret |-> Err("SocketSetFull")]
       ELSE IF IsOk(IndexOf(set, handle)) THEN [set |-> set, ret |-> Err("DuplicateSocket")]
       ELSE LET first == CHOOSE i \in empty : \A j \in empty : i <= j
            IN [set |-> [set EXCEPT ![first] = Some(socket)], ret |-> Ok(handle)]

\* Mutant of SetAdd: the last empty slot is taken.
SetAddLastEmpty(set, socket) ==
    LET handle == SocketHandle(socket)
        empty == {i \in 1..Len(set) : set[i] = None}
    IN IF IsOk(IndexOf(set, handle)) THEN [set |-> set, ret |-> Err("DuplicateSocket")]
       ELSE IF empty = {} THEN [set |-> set, ret |-> Err("SocketSetFull")]
       ELSE LET last == CHOOSE i \in empty : \A j \in empty : i >= j
            IN [set |-> [set EXCEPT ![last] = Some(socket)], ret |-> Ok(handle)]

\* add: [set, ret].
SetAdd(set, socket) ==
    LET handle == SocketHandle(socket)
        empty == {i \in 1..Len(set) : set[i] = None}
    IN IF IsOk(IndexOf(set, handle)) THEN [set |-> set, ret |-> Err("DuplicateSocket")]
       ELSE IF empty = {} THEN [set |-> set, ret |-> Err("SocketSetFull")]
       ELSE LET first == CHOOSE i \in empty : \A j \in empty : i <= j
            IN [set |-> [set EXCEPT ![first] = Some(socket)], ret |-> Ok(handle)]

\* get::<T>: Ok(the socket viewed as T) or the error.
SetGet(set, T, handle) ==
    LET index == IndexOf(set, handle)
    IN IF IsErr(index) THEN index
       ELSE IF set[index[2]] # None THEN Downcast(T, set[index[2]][1])
       ELSE Err("InvalidSocket")

\* Mutant of SetRemove: the first occupied slot is cleared, not the one found.
SetRemoveFirstOccupied(set, handle) ==
    LET index == IndexOf(set, handle)
        occupied == {i \in 1..Len(set) : set[i] # None}
    IN IF IsErr(index) THEN [set |-> set, ret |-> index]
       ELSE LET first == CHOOSE i \in occupied : \A j \in occupied : i <= j
            IN [set |-> [set EXCEPT ![first] = None], ret |-> Ok(<<>>)]

\* Mutant of SetRemove: the slot itself is taken out of the vector.
SetRemoveDropsSlot(set, handle) ==
    LET index == IndexOf(set, handle)
    IN IF IsErr(index) THEN [set |-> set, ret |-> index]
       ELSE IF set[index[2]] = None THEN [set |-> set, ret |-> Err("InvalidSocket")]
       ELSE [set |-> SubSeq(set, 1, index[2] - 1) \o SubSeq(set, index[2] + 1, Len(set)),
             ret |-> Ok(<<>>)]

\* remove: [set, ret].
SetRemove(set, handle) ==
    LET index == IndexOf(set, handle)
    IN IF IsErr(index) THEN [set |-> set, ret |-> index]
       ELSE IF set[index[2]] = None THEN [set |-> set, ret |-> Err("InvalidSocket")]
       ELSE [set |-> [set EXCEPT ![index[2]] = None], ret |-> Ok(<<>>)]

\* Mutant of SetPrune: a connected TcpSocket is kept.
SetPruneKeepsConnected(set) ==
    [i \in 1..Len(set) |->
        IF set[i] # None /\ set[i][1].type = "Tcp" /\ TcpIsConnected(set[i][1])
        THEN set[i] ELSE None]

\* prune: every slot is emptied.
SetPrune(set) == [i \in 1..Len(set) |-> None]

\* iter: the (handle, socket) pairs of the occupied slots, in slot order.
RECURSIVE SetIterFrom(_, _)
SetIterFrom(set, i) ==
    IF i > Len(set) THEN <<>>
    ELSE IF set[i] # None
         THEN <<(<<SocketHandle(set[i][1]), set[i][1]>>)>> \o SetIterFrom(set, i + 1)
         ELSE SetIterFrom(set, i + 1)
SetIter(set) == SetIterFrom(set, 1)

\* Mutant of SetRecycle: the last stale socket is removed, not the first.
SetRecycleLastStale(set, ts, now) ==
    LET it == SetIter(set)
        stale == {k \in 1..Len(it) : SocketRecycle(it[k][2], ts, now)}
    IN IF stale = {} THEN [set |-> set, ret |-> FALSE]
       ELSE LET h == it[CHOOSE k \in stale : \A j \in stale : k >= j][1]
                r == SetRemove(set, h)
            IN [set |-> r.set, ret |-> IsOk(r.ret)]

\* Mutant of SetRecycle: a stale socket that holds unread octets is kept.
SetRecycleIfRead(set, ts, now) ==
    LET it == SetIter(set)
        stale == {k \in 1..Len(it) : /\ SocketRecycle(it[k][2], ts, now)
                                     /\ RingIsEmpty(it[k][2].rx_buffer)}
    IN IF stale = {} THEN [set |-> set, ret |-> FALSE]
       ELSE LET h == it[CHOOSE k \in stale : \A j \in stale : k <= j][1]
                r == SetRemove(set, h)
            IN [set |-> r.set, ret |-> IsOk(r.ret)]

\* recycle: [set, ret].
SetRecycle(set, ts, now) ==
    LET it == SetIter(set)
        stale == {k \in 1..Len(it) : SocketRecycle(it[k][2], ts, now)}
    IN IF stale = {} THEN [set |-> set, ret |-> FALSE]
       ELSE LET h == it[CHOOSE k \in stale : \A j \in stale : k <= j][1]
                r == SetRemove(set, h)
            IN [set |-> r.set, ret |-> IsOk(r.ret)]

\* The slot a reference obtained from get or iter_mut points at, rewritten.
SetStore(set, handle, socket) ==
    LET index == IndexOf(set, handle)
    IN [set EXCEPT ![index[2]] = Some(socket)]

(***************************************************************************)
(* TcpListener and UdpListener (tcp_listener.rs, udp_listener.rs): handles *)
(* maps a bound handle to its port and connections maps a port to its      *)
(* queue of pending (handle, address) pairs.  A map is a function from its *)
(* keys to an Option, None for a key the map does not hold; a queue is a   *)
(* sequence, oldest first.                                                 *)
(***************************************************************************)
MapNew(keys) == [k \in keys |-> None]

MapLen(m) == Cardinality({k \in DOMAIN m : m[k] # None})

\* FnvIndexMap::insert for a map of capacity cap: a held key gets the new
\* value; a new key is refused when the map is full.  [m, ok].
MapInsert(m, k, v, cap) ==
    IF m[k] # None THEN [m |-> [m EXCEPT ![k] = Some(v)], ok |-> TRUE]
    ELSE IF MapLen(m) >= cap THEN [m |-> m, ok |-> FALSE]
    ELSE [m |-> [m EXCEPT ![k] = Some(v)], ok |-> TRUE]

MapRemove(m, k) == [m EXCEPT ![k] = None]

\* spsc::Queue<_, QueueL> holds at most QueueL - 1 entries.  [q, ok].
QueueEnqueue(q, item) ==
    IF Len(q) >= QueueL - 1 THEN [q |-> q, ok |-> FALSE]
    ELSE [q |-> Append(q, item), ok |-> TRUE]

\* TcpListener::new and UdpListener::new; kind tells the two structs apart.
ListenerNew(kind) ==
    [kind |-> kind, handles |-> MapNew(Handles), connections |-> MapNew(Ports)]

\* Mutant of ListenerBind: a handle that is already bound is bound again.
ListenerBindRebinds(l, handle, port, e) ==
    LET hi == MapInsert(l.handles, handle, port, ListenerN)
    IN IF ~hi.ok THEN [l |-> l, ret |-> Err(e)]
       ELSE LET l1 == [l EXCEPT !.handles = hi.m]
                ci == MapInsert(l1.connections, port, <<>>, ListenerN)
            IN IF ~ci.ok THEN [l |-> l1, ret |-> Err(e)]
               ELSE [l |-> [l1 EXCEPT !.connections = ci.m], ret |-> Ok(<<>>)]

\* bind, with e the error of the listener: [l, ret].
ListenerBind(l, handle, port, e) ==
    IF l.handles[handle] # None THEN [l |-> l, ret |-> Err(e)]
    ELSE LET hi == MapInsert(l.handles, handle, port, ListenerN)
         IN IF ~hi.ok THEN [l |-> l, ret |-> Err(e)]
            ELSE LET l1 == [l EXCEPT !.handles = hi.m]
                     ci == MapInsert(l1.connections, port, <<>>, ListenerN)
                 IN IF ~ci.ok THEN [l |-> l1, ret |-> Err(e)]
                    ELSE [l |-> [l1 EXCEPT !.connections = ci.m], ret |-> Ok(<<>>)]

TcpListenerBind(l, handle, port) == ListenerBind(l, handle, port, "Unit")

UdpListenerBind(l, handle, port) == ListenerBind(l, handle, port, "ListenerError")

\* unbind: [l, ret].
UdpListenerUnbind(l, handle) ==
    IF l.handles[handle] # None
    THEN LET port == l.handles[handle][1]
         IN [l |-> [l EXCEPT !.handles = MapRemove(l.handles, handle),
                             !.connections = MapRemove(l.connections, port)],
             ret |-> Ok(<<>>)]
    ELSE [l |-> l, ret |-> Err("ListenerError")]

\* incoming(port): the queue of the port, if the port has one.
ListenerIncoming(l, port) == l.connections[port]

\* The queue available, accept and get_remote reach, or the error e.
ListenerQueueOf(l, handle, e) ==
    IF l.handles[handle] = None THEN Err(e)
    ELSE LET q == l.connections[l.handles[handle][1]]
         IN IF q = None THEN Err(e) ELSE Ok(q[1])

ListenerAvailable(l, handle, e) ==
    LET q == ListenerQueueOf(l, handle, e)
    IN IF IsErr(q) THEN q ELSE Ok(Len(q[2]) # 0)

\* Mutant of ListenerDequeue: the newest entry is taken, not the oldest.
ListenerDequeueNewest(l, handle, e) ==
    LET q == ListenerQueueOf(l, handle, e)
    IN IF IsErr(q) THEN [l |-> l, ret |-> q]
       ELSE IF Len(q[2]) = 0 THEN [l |-> l, ret |-> Err(e)]
       ELSE [l |-> [l EXCEPT !.connections[l.handles[handle][1]] =
                                 Some(SubSeq(q[2], 1, Len(q[2]) - 1))],
             ret |-> Ok(q[2][Len(q[2])])]

\* The dequeue-or-fail of accept and get_remote: [l, ret].
ListenerDequeue(l, handle, e) ==
    LET q == ListenerQueueOf(l, handle, e)
    IN IF IsErr(q) THEN [l |-> l, ret |-> q]
       ELSE IF Len(q[2]) = 0 THEN [l |-> l, ret |-> Err(e)]
       ELSE [l |-> [l EXCEPT !.connections[l.handles[handle][1]] = Some(Tail(q[2]))],
             ret |-> Ok(Head(q[2]))]

TcpListenerAvailable(l, handle) == ListenerAvailable(l, handle, "Unit")

TcpListenerAccept(l, handle) == ListenerDequeue(l, handle, "Unit")

UdpListenerAvailable(l, handle) == ListenerAvailable(l, handle, "ListenerError")

UdpListenerGetRemote(l, handle) == ListenerDequeue(l, handle, "ListenerError")

\* peek_remote: the oldest pending entry, left in the queue.
UdpListenerPeekRemote(l, handle) ==
    LET q == ListenerQueueOf(l, handle, "ListenerError")
    IN IF IsErr(q) THEN q
       ELSE IF Len(q[2]) = 0 THEN Err("ListenerError")
       ELSE Ok(Head(q[2]))

UdpListenerIsPortBound(l, port) == l.connections[port] # None

UdpListenerIsBound(l, handle) == l.handles[handle] # None

UdpListenerGetPort(l, handle) ==
    IF l.handles[handle] = None THEN Err("ListenerError") ELSE Ok(l.handles[handle][1])

\* Mutant of UdpListenerGetOutgoing: the oldest entry with the address is
\* taken, wherever it is in the queue.
UdpListenerGetOutgoingAnywhere(l, handle, addr) ==
    LET q == ListenerQueueOf(l, handle, "ListenerError")
    IN IF IsErr(q) THEN [l |-> l, ret |-> None]
       ELSE LET at == {i \in 1..Len(q[2]) : q[2][i][2] = addr}
            IN IF at = {} THEN [l |-> l, ret |-> None]
               ELSE LET i == CHOOSE j \in at : \A k \in at : j <= k
                    IN [l |-> [l EXCEPT !.connections[l.handles[handle][1]] =
                                  Some(SubSeq(q[2], 1, i - 1)
                                       \o SubSeq(q[2], i + 1, Len(q[2])))],
                        ret |-> Some(q[2][i][1])]

\* get_outgoing: [l, ret], ret the socket handle of the head entry when the
\* head has the address, and the head is then dequeued.
UdpListenerGetOutgoing(l, handle, addr) ==
    LET q == ListenerQueueOf(l, handle, "ListenerError")
    IN IF IsErr(q) THEN [l |-> l, ret |-> None]
       ELSE IF Len(q[2]) = 0 THEN [l |-> l, ret |-> None]
       ELSE IF Head(q[2])[2] = addr
       THEN [l |-> [l EXCEPT !.connections[l.handles[handle][1]] = Some(Tail(q[2]))],
             ret |-> Some(Head(q[2])[1])]
       ELSE [l |-> l, ret |-> None]

(***************************************************************************)
(* The socket set as a state machine: sockets is the Set, clock the value  *)
(* of Instant::now(), res the last call and what it returned: ret is "Ok"  *)
(* or the error, val the number, view the socket reference, sty the socket *)
(* type and flag the boolean returned, as the call has one.                *)
(***************************************************************************)
\* The "Ok" or the Error of a Result.
Tag(r) == IF IsOk(r) THEN "Ok" ELSE r[2]
\* The value of a Result as an Option: None for an error.
Val(r) == IF IsOk(r) THEN Some(r[2]) ELSE None

NoCall == [op |-> "none", h |-> 0, ret |-> "Ok"]

\* set.add(TcpSocket::new(id)) and set.add(UdpSocket::new(id)).
Add(socket) ==
    LET r == SetAdd(sockets, socket)
    IN /\ sockets' = r.set
       /\ res' = [op |-> "add", h |-> SocketHandle(socket), ty |-> SocketGetType(socket),
                  ret |-> Tag(r.ret), val |-> Val(r.ret)]
       /\ UNCHANGED <<clock, tcp, unread, pollVars, ringVars, listener>>

\* set.get::<T>(handle), the reference dropped unused.
Get(T, handle) ==
    /\ LET g == SetGet(sockets, T, handle)
       IN res' = [op |-> "get", h |-> handle, ty |-> T, ret |-> Tag(g), view |-> Val(g)]
    /\ UNCHANGED <<sockets, clock, tcp, unread, pollVars, ringVars, listener>>

\* set.socket_type(handle).
SocketType(handle) ==
    /\ res' = [op |-> "socket_type", h |-> handle, ret |-> "Ok",
               sty |-> SetSocketType(sockets, handle)]
    /\ UNCHANGED <<sockets, clock, tcp, unread, pollVars, ringVars, listener>>

\* set.remove(handle).
Remove(handle) ==
    LET r == SetRemove(sockets, handle)
    IN /\ sockets' = r.set
       /\ res' = [op |-> "remove", h |-> handle, ret |-> Tag(r.ret)]
       /\ UNCHANGED <<clock, tcp, unread, pollVars, ringVars, listener>>

\* set.prune().
\* set.prune(); arg notes how many sockets were stored before the call.
Prune ==
    /\ sockets' = SetPrune(sockets)
    /\ res' = [op |-> "prune", h |-> 0, ret |-> "Ok", arg |-> SetLen(sockets)]
    /\ UNCHANGED <<clock, tcp, unread, pollVars, ringVars, listener>>

\* set.recycle(ts); the driver calls it with its current time.  val notes
\* how many unread octets the evicted socket held.
Recycle(ts) ==
    \E r \in {SetRecycle(sockets, ts, clock)} :
       \E gone \in {{i \in 1..Len(sockets) : sockets[i] # None /\ r.set[i] = None}} :
          /\ sockets' = r.set
          /\ res' = [op |-> "recycle", h |-> 0, ts |-> ts, ret |-> "Ok", flag |-> r.ret,
                     val |-> IF gone = {} THEN None
                             ELSE Some(RingLen(
                                     sockets[CHOOSE i \in gone : TRUE][1].rx_buffer))]
          /\ UNCHANGED <<clock, tcp, unread, pollVars, ringVars, listener>>

\* set.get::<TcpSocket>(handle)?.set_state(state).
SockSetState(handle, state) ==
    LET g == SetGet(sockets, "Tcp", handle)
    IN /\ IsOk(g)
       /\ sockets' = SetStore(sockets, handle, TcpSetState(g[2], state))
       /\ res' = [op |-> "set_state", h |-> handle, ret |-> "Ok"]
       /\ UNCHANGED <<clock, tcp, unread, pollVars, ringVars, listener>>

\* The driver reports a remote close of a stored socket at its current time.
SockClosedByRemote(handle) ==
    LET index == IndexOf(sockets, handle)
    IN /\ IsOk(index)
       /\ sockets' = SetStore(sockets, handle,
                              SocketClosedByRemote(sockets[index[2]][1], clock, clock))
       /\ res' = [op |-> "closed_by_remote", h |-> handle, ret |-> "Ok"]
       /\ UNCHANGED <<clock, tcp, unread, pollVars, ringVars, listener>>

\* Time passes.
Tick ==
    /\ \E t \in Times : t > clock /\ clock' = t
    /\ res' = NoCall
    /\ UNCHANGED <<sockets, tcp, unread, pollVars, ringVars, listener>>

NextSet ==
    \/ \E id \in Handles : Add(TcpNew(id))
    \/ \E id \in Handles : Add(UdpNew(id))
    \/ \E T \in SocketTypes, h \in Handles : Get(T, h)
    \/ \E h \in Handles : SocketType(h)
    \/ \E h \in Handles : Remove(h)
    \/ Prune
    \/ Recycle(clock)
    \/ \E h \in Handles, a \in Addrs :
          \E st \in {<<"Created">>, <<"WaitingForConnect", a>>, <<"Connected", a>>} :
             SockSetState(h, st)
    \/ \E h \in Handles : SockClosedByRemote(h)
    \/ Tick

(***************************************************************************)
(* One TcpSocket on its own, as it is before it is added to a set: tcp is  *)
(* the socket, res the last call and what it returned, and unread the      *)
(* history of the octets rx_enqueue_slice accepted that no recv has        *)
(* returned yet, oldest first.                                             *)
(***************************************************************************)
\* read_timeout is an Option<Seconds>: both of its shapes are drawn.
InitTcp ==
    /\ \E rt \in {None, Some(READ_TIMEOUT_SECS)} :
          tcp = [TcpNew(0) EXCEPT !.read_timeout = rt]
    /\ unread = <<>>
    /\ res = NoCall
    /\ sockets = SetNew
    /\ clock = 0
    /\ udp = UdpNew(0)
    /\ fired = <<>>
    /\ ring = RingNew
    /\ enq = <<>>
    /\ deq = <<>>
    /\ listener = ListenerNew("Tcp")

TcpDoSetState(state) ==
    /\ tcp' = TcpSetState(tcp, state)
    /\ res' = [op |-> "set_state", ret |-> "Ok"]
    /\ UNCHANGED <<sockets, clock, unread, pollVars, ringVars, listener>>

TcpDoSetAvailableData(n) ==
    /\ tcp' = TcpSetAvailableData(tcp, n)
    /\ res' = [op |-> "set_available_data", ret |-> "Ok"]
    /\ UNCHANGED <<sockets, clock, unread, pollVars, ringVars, listener>>

TcpDoClosedByRemote(ts) ==
    /\ tcp' = TcpClosedByRemote(tcp, ts)
    /\ res' = [op |-> "closed_by_remote", ts |-> ts, ret |-> "Ok"]
    /\ UNCHANGED <<sockets, clock, unread, pollVars, ringVars, listener>>

TcpDoRecycle(ts) ==
    /\ res' = [op |-> "recycle", ts |-> ts, ret |-> "Ok", flag |-> TcpRecycle(tcp, ts)]
    /\ UNCHANGED <<sockets, clock, tcp, unread, pollVars, ringVars, listener>>

TcpDoRxEnqueueSlice(data) ==
    LET e == TcpRxEnqueueSlice(tcp, data)
    IN /\ tcp' = e.s
       /\ unread' = unread \o SubSeq(data, 1, e.ret)
       /\ res' = [op |-> "rx_enqueue_slice", ret |-> "Ok", val |-> Some(e.ret)]
       /\ UNCHANGED <<sockets, clock, pollVars, ringVars, listener>>

\* One of the five reads; r is what the socket's method returned.
TcpDoRead(op, arg, r) ==
    /\ tcp' = r.s
    /\ unread' = IF IsOk(r.ret) /\ op \notin {"peek", "peek_slice"}
                 THEN SubSeq(unread, r.ret[2] + 1, Len(unread))
                 ELSE unread
    /\ res' = [op |-> op, arg |-> arg, ret |-> Tag(r.ret), val |-> Val(r.ret),
               bytes |-> r.bytes]
    /\ UNCHANGED <<sockets, clock, pollVars, ringVars, listener>>

TcpDoRecv(want) == TcpDoRead("recv", want, TcpRecv(tcp, want))
TcpDoRecvWrapping(want) == TcpDoRead("recv_wrapping", want, TcpRecvWrapping(tcp, want))
TcpDoRecvSlice(outLen) == TcpDoRead("recv_slice", outLen, TcpRecvSlice(tcp, outLen))
TcpDoPeek(size) == TcpDoRead("peek", size, TcpPeek(tcp, size))
TcpDoPeekSlice(outLen) == TcpDoRead("peek_slice", outLen, TcpPeekSlice(tcp, outLen))

\* The socket's timing: state changes, remote closes and recycle queries.
NextTcp ==
    \/ \E st \in TcpStates : TcpDoSetState(st)
    \/ \E n \in 0..MaxAvail : TcpDoSetAvailableData(n)
    \/ \E ts \in Times : TcpDoClosedByRemote(ts)
    \/ \E ts \in Times : TcpDoRecycle(ts)

\* The socket's receive path: the driver enqueues and closes, the
\* application reads.
NextRecv ==
    \/ \E a \in Addrs :
          \E st \in {<<"Created">>, <<"WaitingForConnect", a>>, <<"Connected", a>>} :
             TcpDoSetState(st)
    \/ \E n \in 0..MaxAvail : TcpDoSetAvailableData(n)
    \/ \E ts \in 0..MaxT0 : TcpDoClosedByRemote(ts)
    \/ \E data \in Slices : TcpDoRxEnqueueSlice(data)
    \/ \E want \in OutLens : TcpDoRecv(want)
    \/ \E want \in OutLens : TcpDoRecvWrapping(want)
    \/ \E outLen \in OutLens : TcpDoRecvSlice(outLen)
    \/ \E size \in OutLens : TcpDoPeek(size)
    \/ \E outLen \in OutLens : TcpDoPeekSlice(outLen)

InitRecv ==
    /\ tcp = TcpNew(0)
    /\ unread = <<>>
    /\ res = NoCall
    /\ sockets = SetNew
    /\ clock = 0
    /\ udp = UdpNew(0)
    /\ fired = <<>>
    /\ ring = RingNew
    /\ enq = <<>>
    /\ deq = <<>>
    /\ listener = ListenerNew("Tcp")

Init ==
    /\ sockets = SetNew
    /\ clock = 0
    /\ res = NoCall
    /\ tcp = TcpNew(0)
    /\ unread = <<>>
    /\ udp = UdpNew(0)
    /\ fired = <<>>
    /\ ring = RingNew
    /\ enq = <<>>
    /\ deq = <<>>
    /\ listener = ListenerNew("Tcp")

Next == NextSet

Spec == Init /\ [][Next]_vars

SpecTcp == InitTcp /\ [][NextTcp]_vars

SpecRecv == InitRecv /\ [][NextRecv]_vars

(***************************************************************************)
(* The availability poll: a TcpSocket and a UdpSocket that the driver asks *)
(* should_update_available_data as its clock advances.  fired holds the    *)
(* instants of the last two polls of the TcpSocket that returned true.     *)
(***************************************************************************)
LastTwo(seq) == IF Len(seq) <= 2 THEN seq ELSE SubSeq(seq, Len(seq) - 1, Len(seq))

InitPoll ==
    /\ tcp = TcpNew(0)
    /\ udp = UdpNew(0)
    /\ fired = <<>>
    /\ clock = 0
    /\ res = NoCall
    /\ sockets = SetNew
    /\ unread = <<>>
    /\ ring = RingNew
    /\ enq = <<>>
    /\ deq = <<>>
    /\ listener = ListenerNew("Tcp")

\* tcp.should_update_available_data(ts).
TcpDoShouldUpdate(ts) ==
    LET r == TcpShouldUpdateAvailableData(tcp, ts)
    IN /\ tcp' = r.s
       /\ fired' = IF r.ret THEN LastTwo(Append(fired, ts)) ELSE fired
       /\ res' = [op |-> "should_update", ts |-> ts, ret |-> "Ok", flag |-> r.ret]
       /\ UNCHANGED <<sockets, clock, unread, udp, ringVars, listener>>

\* udp.should_update_available_data(): the clock is read twice and may
\* advance between the two reads.
UdpDoShouldUpdate(now2) ==
    LET r == UdpShouldUpdateAvailableData(udp, clock, now2)
    IN /\ now2 >= clock
       /\ udp' = r.s
       /\ clock' = now2
       /\ res' = [op |-> "udp_should_update", ts |-> clock, ret |-> "Ok", flag |-> r.ret]
       /\ UNCHANGED <<sockets, tcp, unread, fired, ringVars, listener>>

\* Both sockets are polled side by side at the same instant.
PollBoth(now2) ==
    LET t == TcpShouldUpdateAvailableData(tcp, clock)
        u == UdpShouldUpdateAvailableData(udp, clock, now2)
    IN /\ now2 >= clock
       /\ tcp' = t.s
       /\ udp' = u.s
       /\ fired' = IF t.ret THEN LastTwo(Append(fired, clock)) ELSE fired
       /\ clock' = now2
       /\ res' = [op |-> "poll_both", ts |-> clock, ret |-> "Ok",
                  flag |-> t.ret, flag2 |-> u.ret]
       /\ UNCHANGED <<sockets, unread, ringVars, listener>>

NextPoll ==
    \/ \E a \in Addrs :
          \E st \in {<<"Created">>, <<"WaitingForConnect", a>>, <<"Connected", a>>} :
             TcpDoSetState(st)
    \/ TcpDoClosedByRemote(clock)
    \/ TcpDoShouldUpdate(clock)
    \/ \E now2 \in Times : UdpDoShouldUpdate(now2)
    \/ \E now2 \in Times : PollBoth(now2)
    \/ Tick

SpecPoll == InitPoll /\ [][NextPoll]_vars

(***************************************************************************)
(* One UdpSocket on its own: its binding and its eviction timing.  The     *)
(* socket reads the clock itself.                                          *)
(***************************************************************************)
UdpStates == {"Closed", "Established"}

\* read_timeout is an Option<Duration>: both of its shapes are drawn.
InitUdp ==
    /\ \E rt \in {None, Some(READ_TIMEOUT_SECS * TIMER_HZ)} :
          udp = [UdpNew(0) EXCEPT !.read_timeout = rt]
    /\ clock = 0
    /\ res = NoCall
    /\ unread = <<>>
    /\ sockets = SetNew
    /\ tcp = TcpNew(0)
    /\ fired = <<>>
    /\ ring = RingNew
    /\ enq = <<>>
    /\ deq = <<>>
    /\ listener = ListenerNew("Tcp")

UdpDoSetState(state) ==
    /\ udp' = UdpSetState(udp, state)
    /\ res' = [op |-> "set_state", ret |-> "Ok"]
    /\ UNCHANGED <<sockets, clock, tcp, unread, fired, ringVars, listener>>

UdpDoBind(endpoint) ==
    LET r == UdpBind(udp, endpoint)
    IN /\ udp' = r.s
       /\ res' = [op |-> "bind", arg |-> endpoint, ret |-> Tag(r.ret)]
       /\ UNCHANGED <<sockets, clock, tcp, unread, fired, ringVars, listener>>

UdpDoClose ==
    /\ udp' = UdpClose(udp)
    /\ res' = [op |-> "close", ret |-> "Ok"]
    /\ UNCHANGED <<sockets, clock, tcp, unread, fired, ringVars, listener>>

UdpDoClosedByRemote ==
    /\ udp' = UdpClosedByRemote(udp, clock)
    /\ res' = [op |-> "closed_by_remote", ts |-> clock, ret |-> "Ok"]
    /\ UNCHANGED <<sockets, clock, tcp, unread, fired, ringVars, listener>>

UdpDoRecycle ==
    /\ res' = [op |-> "recycle", ts |-> clock, ret |-> "Ok", flag |-> UdpRecycle(udp, clock)]
    /\ UNCHANGED <<sockets, clock, tcp, unread, udp, fired, ringVars, listener>>

NextUdp ==
    \/ \E st \in UdpStates : UdpDoSetState(st)
    \/ \E e \in Endpoints : UdpDoBind(e)
    \/ UdpDoClose
    \/ UdpDoClosedByRemote
    \/ UdpDoRecycle
    \/ Tick

SpecUdp == InitUdp /\ [][NextUdp]_vars

(***************************************************************************)
(* The receive path of one UdpSocket: the driver enqueues, the application *)
(* binds, closes and reads.  unread is the history of the octets           *)
(* rx_enqueue_slice accepted that no recv has returned yet.                *)
(***************************************************************************)
InitUdpRecv ==
    /\ udp = UdpNew(0)
    /\ unread = <<>>
    /\ res = NoCall
    /\ clock = 0
    /\ sockets = SetNew
    /\ tcp = TcpNew(0)
    /\ fired = <<>>
    /\ ring = RingNew
    /\ enq = <<>>
    /\ deq = <<>>
    /\ listener = ListenerNew("Tcp")

UdpDoRxEnqueueSlice(data) ==
    LET e == UdpRxEnqueueSlice(udp, data)
    IN /\ udp' = e.s
       /\ unread' = unread \o SubSeq(data, 1, e.ret)
       /\ res' = [op |-> "rx_enqueue_slice", arg |-> Len(data), ret |-> "Ok",
                  val |-> Some(e.ret)]
       /\ UNCHANGED <<sockets, clock, tcp, fired, ringVars, listener>>

\* One of the four reads; r is what the socket's method returned.
UdpDoRead(op, arg, r) ==
    /\ udp' = r.s
    /\ unread' = IF IsOk(r.ret) /\ op \notin {"peek", "peek_slice"}
                 THEN SubSeq(unread, r.ret[2] + 1, Len(unread))
                 ELSE unread
    /\ res' = [op |-> op, arg |-> arg, ret |-> Tag(r.ret), val |-> Val(r.ret),
               bytes |-> r.bytes]
    /\ UNCHANGED <<sockets, clock, tcp, fired, ringVars, listener>>

UdpDoRecv(want) == UdpDoRead("recv", want, UdpRecv(udp, want))
UdpDoRecvSlice(outLen) == UdpDoRead("recv_slice", outLen, UdpRecvSlice(udp, outLen))
UdpDoPeek(size) == UdpDoRead("peek", size, UdpPeek(udp, size))
UdpDoPeekSlice(outLen) == UdpDoRead("peek_slice", outLen, UdpPeekSlice(udp, outLen))

NextUdpRecv ==
    \/ \E st \in UdpStates : UdpDoSetState(st)
    \/ \E e \in Endpoints : UdpDoBind(e)
    \/ UdpDoClose
    \/ \E data \in Slices : UdpDoRxEnqueueSlice(data)
    \/ \E want \in OutLens : UdpDoRecv(want)
    \/ \E outLen \in OutLens : UdpDoRecvSlice(outLen)
    \/ \E size \in OutLens : UdpDoPeek(size)
    \/ \E outLen \in OutLens : UdpDoPeekSlice(outLen)

SpecUdpRecv == InitUdpRecv /\ [][NextUdpRecv]_vars

(***************************************************************************)
(* One RingBuffer on its own: enq is every octet enqueue_slice accepted    *)
(* and deq every octet a dequeue returned, both in order.                  *)
(***************************************************************************)
InitRing ==
    /\ ring = RingNew
    /\ enq = <<>>
    /\ deq = <<>>
    /\ res = NoCall
    /\ clock = 0
    /\ sockets = SetNew
    /\ tcp = TcpNew(0)
    /\ unread = <<>>
    /\ udp = UdpNew(0)
    /\ fired = <<>>
    /\ listener = ListenerNew("Tcp")

RingDoEnqueueSlice(data) ==
    LET e == RingEnqueueSlice(ring, data)
    IN /\ Len(enq) + e.ret <= MaxEnq
       /\ ring' = e.rb
       /\ enq' = enq \o SubSeq(data, 1, e.ret)
       /\ res' = [op |-> "enqueue_slice", arg |-> Len(data), ret |-> "Ok",
                  val |-> Some(e.ret), bytes |-> SubSeq(data, 1, e.ret)]
       /\ UNCHANGED <<sockets, clock, tcp, unread, pollVars, deq, listener>>

\* One of the two dequeues; d is what the buffer's method returned.
RingDoDequeue(op, arg, d) ==
    /\ ring' = d.rb
    /\ deq' = deq \o d.bytes
    /\ res' = [op |-> op, arg |-> arg, ret |-> "Ok", val |-> Some(d.ret), bytes |-> d.bytes]
    /\ UNCHANGED <<sockets, clock, tcp, unread, pollVars, enq, listener>>

RingDoDequeueSlice(outLen) ==
    RingDoDequeue("dequeue_slice", outLen, RingDequeueSlice(ring, outLen))

RingDoDequeueManyWith(want) ==
    RingDoDequeue("dequeue_many_with", want, RingDequeueManyWith(ring, want))

\* get_allocated(0, size), the peek.
RingDoPeek(size) ==
    LET view == RingGetAllocated(ring, 0, size)
    IN /\ res' = [op |-> "peek", arg |-> size, ret |-> "Ok", val |-> Some(Len(view)),
                  bytes |-> view]
       /\ UNCHANGED <<sockets, clock, tcp, unread, pollVars, ringVars, listener>>

NextRing ==
    \/ \E data \in Slices : RingDoEnqueueSlice(data)
    \/ \E outLen \in OutLens : RingDoDequeueSlice(outLen)
    \/ \E want \in OutLens : RingDoDequeueManyWith(want)
    \/ \E size \in OutLens : RingDoPeek(size)

SpecRing == InitRing /\ [][NextRing]_vars

(***************************************************************************)
(* The receive path through the set: one stored socket, of either type,    *)
(* that the driver fills through Socket::rx_enqueue_slice and the          *)
(* application reads after a downcast.  unread is the history of the       *)
(* octets accepted and not yet read.                                       *)
(***************************************************************************)
InitRx ==
    /\ \E socket \in {TcpNew(0), UdpNew(0)} : sockets = SetAdd(SetNew, socket).set
    /\ unread = <<>>
    /\ res = NoCall
    /\ clock = 0
    /\ tcp = TcpNew(0)
    /\ udp = UdpNew(0)
    /\ fired = <<>>
    /\ ring = RingNew
    /\ enq = <<>>
    /\ deq = <<>>
    /\ listener = ListenerNew("Tcp")

\* The driver finds the socket by its handle and enqueues into it.
SockRxEnqueueSlice(handle, data) ==
    LET index == IndexOf(sockets, handle)
    IN /\ IsOk(index)
       /\ LET e == SocketRxEnqueueSlice(sockets[index[2]][1], data)
          IN /\ sockets' = SetStore(sockets, handle, e.s)
             /\ unread' = unread \o SubSeq(data, 1, e.ret)
             /\ res' = [op |-> "rx_enqueue_slice", h |-> handle, arg |-> Len(data),
                        ret |-> "Ok", val |-> Some(e.ret), bytes |-> data]
       /\ UNCHANGED <<clock, tcp, pollVars, ringVars, listener>>

\* set.get::<UdpSocket>(handle)?.bind(endpoint).
SockBind(handle, endpoint) ==
    LET g == SetGet(sockets, "Udp", handle)
    IN /\ IsOk(g)
       /\ LET r == UdpBind(g[2], endpoint)
          IN /\ sockets' = SetStore(sockets, handle, r.s)
             /\ res' = [op |-> "bind", h |-> handle, arg |-> endpoint, ret |-> Tag(r.ret)]
       /\ UNCHANGED <<clock, tcp, unread, pollVars, ringVars, listener>>

\* set.get::<T>(handle)?.recv_slice(data), T the type of the stored socket.
SockRecvSlice(handle, outLen) ==
    LET index == IndexOf(sockets, handle)
    IN /\ IsOk(index)
       /\ LET g == SetGet(sockets, SocketGetType(sockets[index[2]][1]), handle)
              r == IF g[2].type = "Tcp" THEN TcpRecvSlice(g[2], outLen)
                   ELSE UdpRecvSlice(g[2], outLen)
          IN /\ IsOk(g)
             /\ sockets' = SetStore(sockets, handle, r.s)
             /\ unread' = IF IsOk(r.ret) THEN SubSeq(unread, r.ret[2] + 1, Len(unread))
                          ELSE unread
             /\ res' = [op |-> "recv_slice", h |-> handle, arg |-> outLen,
                        ret |-> Tag(r.ret), val |-> Val(r.ret), bytes |-> r.bytes]
       /\ UNCHANGED <<clock, tcp, pollVars, ringVars, listener>>

NextRx ==
    \/ \E h \in Handles, data \in Slices : SockRxEnqueueSlice(h, data)
    \/ \E h \in Handles, outLen \in OutLens : SockRecvSlice(h, outLen)
    \/ \E h \in Handles, e \in Endpoints : SockBind(h, e)
    \/ \E h \in Handles, a \in Addrs :
          \E st \in {<<"Created">>, <<"WaitingForConnect", a>>, <<"Connected", a>>} :
             SockSetState(h, st)

SpecRx == InitRx /\ [][NextRx]_vars

(***************************************************************************)
(* One listener, a TcpListener or a UdpListener: the application binds,    *)
(* unbinds and accepts, the driver pushes the connections that arrive into *)
(* incoming(port).                                                         *)
(***************************************************************************)
InitListener ==
    /\ \E kind \in {"Tcp", "Udp"} : listener = ListenerNew(kind)
    /\ res = NoCall
    /\ clock = 0
    /\ sockets = SetNew
    /\ tcp = TcpNew(0)
    /\ unread = <<>>
    /\ udp = UdpNew(0)
    /\ fired = <<>>
    /\ ring = RingNew
    /\ enq = <<>>
    /\ deq = <<>>

ListenerDoBind(handle, port) ==
    LET r == IF listener.kind = "Tcp" THEN TcpListenerBind(listener, handle, port)
             ELSE UdpListenerBind(listener, handle, port)
    IN /\ listener' = r.l
       /\ res' = [op |-> "bind", h |-> handle, arg |-> port, ret |-> Tag(r.ret)]
       /\ UNCHANGED <<sockets, clock, tcp, unread, pollVars, ringVars>>

\* Only the UdpListener has unbind.
ListenerDoUnbind(handle) ==
    LET r == UdpListenerUnbind(listener, handle)
    IN /\ listener.kind = "Udp"
       /\ listener' = r.l
       /\ res' = [op |-> "unbind", h |-> handle, ret |-> Tag(r.ret)]
       /\ UNCHANGED <<sockets, clock, tcp, unread, pollVars, ringVars>>

\* The driver's push: incoming(port) and, on the queue it gives, enqueue.
ListenerDoPush(port, item) ==
    LET q == ListenerIncoming(listener, port)
    IN /\ IF q = None
          THEN /\ listener' = listener
               /\ res' = [op |-> "push", arg |-> port, item |-> Some(item),
                          ret |-> "NoQueue"]
          ELSE LET e == QueueEnqueue(q[1], item)
               IN /\ listener' = [listener EXCEPT !.connections[port] = Some(e.q)]
                  /\ res' = [op |-> "push", arg |-> port, item |-> Some(item),
                             ret |-> IF e.ok THEN "Ok" ELSE "Full"]
       /\ UNCHANGED <<sockets, clock, tcp, unread, pollVars, ringVars>>

ListenerDoAvailable(handle) ==
    LET r == IF listener.kind = "Tcp" THEN TcpListenerAvailable(listener, handle)
             ELSE UdpListenerAvailable(listener, handle)
    IN /\ res' = [op |-> "available", h |-> handle, ret |-> Tag(r),
                  flag |-> IF IsOk(r) THEN r[2] ELSE FALSE]
       /\ UNCHANGED <<sockets, clock, tcp, unread, pollVars, ringVars, listener>>

\* Only the TcpListener has accept.
ListenerDoAccept(handle) ==
    LET r == TcpListenerAccept(listener, handle)
    IN /\ listener.kind = "Tcp"
       /\ listener' = r.l
       /\ res' = [op |-> "accept", h |-> handle, ret |-> Tag(r.ret), item |-> Val(r.ret)]
       /\ UNCHANGED <<sockets, clock, tcp, unread, pollVars, ringVars>>

\* Only the UdpListener has get_remote.
ListenerDoGetRemote(handle) ==
    LET r == UdpListenerGetRemote(listener, handle)
    IN /\ listener.kind = "Udp"
       /\ listener' = r.l
       /\ res' = [op |-> "get_remote", h |-> handle, ret |-> Tag(r.ret),
                  item |-> Val(r.ret)]
       /\ UNCHANGED <<sockets, clock, tcp, unread, pollVars, ringVars>>

\* Only the UdpListener has peek_remote.
ListenerDoPeekRemote(handle) ==
    LET r == UdpListenerPeekRemote(listener, handle)
    IN /\ listener.kind = "Udp"
       /\ res' = [op |-> "peek_remote", h |-> handle, ret |-> Tag(r), item |-> Val(r)]
       /\ UNCHANGED <<sockets, clock, tcp, unread, pollVars, ringVars, listener>>

\* Only the UdpListener has get_outgoing.
ListenerDoGetOutgoing(handle, addr) ==
    LET r == UdpListenerGetOutgoing(listener, handle, addr)
    IN /\ listener.kind = "Udp"
       /\ listener' = r.l
       /\ res' = [op |-> "get_outgoing", h |-> handle, arg |-> addr, ret |-> "Ok",
                  val |-> r.ret]
       /\ UNCHANGED <<sockets, clock, tcp, unread, pollVars, ringVars>>

NextListener ==
    \/ \E h \in Handles, p \in Ports : ListenerDoBind(h, p)
    \/ \E h \in Handles : ListenerDoUnbind(h)
    \/ \E p \in Ports, item \in Remotes : ListenerDoPush(p, item)
    \/ \E h \in Handles : ListenerDoAvailable(h)
    \/ \E h \in Handles : ListenerDoAccept(h)
    \/ \E h \in Handles : ListenerDoGetRemote(h)
    \/ \E h \in Handles : ListenerDoPeekRemote(h)
    \/ \E h \in Handles, a \in RemoteAddrs : ListenerDoGetOutgoing(h, a)

SpecListener == InitListener /\ [][NextListener]_vars

(***************************************************************************)
(* The socket set with the handle of a stored UdpSocket changed through    *)
(* the reference get gives.                                                *)
(***************************************************************************)
InitHandle ==
    /\ sockets = SetNew
    /\ clock = 0
    /\ res = NoCall
    /\ tcp = TcpNew(0)
    /\ unread = <<>>
    /\ udp = UdpNew(0)
    /\ fired = <<>>
    /\ ring = RingNew
    /\ enq = <<>>
    /\ deq = <<>>
    /\ listener = ListenerNew("Tcp")

\* set.get::<UdpSocket>(handle)?.update_handle(new).
SockUpdateHandle(handle, new) ==
    LET g == SetGet(sockets, "Udp", handle)
    IN /\ IsOk(g)
       /\ sockets' = SetStore(sockets, handle, UdpUpdateHandle(g[2], new))
       /\ res' = [op |-> "update_handle", h |-> handle, arg |-> new, ret |-> "Ok"]
       /\ UNCHANGED <<clock, tcp, unread, pollVars, ringVars, listener>>

NextHandle ==
    \/ \E id \in Handles : Add(TcpNew(id))
    \/ \E id \in Handles : Add(UdpNew(id))
    \/ \E T \in SocketTypes, h \in Handles : Get(T, h)
    \/ \E h \in Handles : SocketType(h)
    \/ \E h \in Handles : Remove(h)
    \/ \E h \in Handles, new \in Handles : SockUpdateHandle(h, new)

SpecHandle == InitHandle /\ [][NextHandle]_vars

(***************************************************************************)
(* The availability poll of one stored socket, of either type, at strictly *)
(* advancing instants.  fired holds the instants of its last two polls     *)
(* that returned true.                                                     *)
(***************************************************************************)
InitPollOne ==
    /\ \E socket \in {TcpNew(0), UdpNew(0)} : sockets = SetAdd(SetNew, socket).set
    /\ fired = <<>>
    /\ clock = 0
    /\ res = NoCall
    /\ tcp = TcpNew(0)
    /\ udp = UdpNew(0)
    /\ unread = <<>>
    /\ ring = RingNew
    /\ enq = <<>>
    /\ deq = <<>>
    /\ listener = ListenerNew("Tcp")

\* The driver polls the stored socket at the instant ts, later than the
\* poll before.
SockShouldUpdate(handle, ts) ==
    LET index == IndexOf(sockets, handle)
    IN /\ IsOk(index)
       /\ ts > clock
       /\ LET r == SocketShouldUpdateAvailableData(sockets[index[2]][1], ts, ts, ts)
          IN /\ sockets' = SetStore(sockets, handle, r.s)
             /\ fired' = IF r.ret THEN LastTwo(Append(fired, ts)) ELSE fired
             /\ res' = [op |-> "should_update", h |-> handle, ts |-> ts, ret |-> "Ok",
                        flag |-> r.ret]
       /\ clock' = ts
       /\ UNCHANGED <<tcp, unread, udp, ringVars, listener>>

NextPollOne ==
    \/ \E h \in Handles, a \in Addrs :
          \E st \in {<<"Created">>, <<"Connected", a>>} : SockSetState(h, st)
    \/ \E h \in Handles, ts \in PollTimes : SockShouldUpdate(h, ts)

SpecPollOne == InitPollOne /\ [][NextPollOne]_vars

(***************************************************************************)
(* Eviction by the driver: sockets are added, filled and closed by the     *)
(* remote once, and the periodic driver tick lets time pass and calls      *)
(* recycle with the current time.  No set_state and no second              *)
(* closed_by_remote touches a closed socket, and no socket is read.        *)
(***************************************************************************)
InitEvict ==
    /\ sockets = SetNew
    /\ clock = 0
    /\ res = NoCall
    /\ tcp = TcpNew(0)
    /\ unread = <<>>
    /\ udp = UdpNew(0)
    /\ fired = <<>>
    /\ ring = RingNew
    /\ enq = <<>>
    /\ deq = <<>>
    /\ listener = ListenerNew("Tcp")

\* The instant the remote closed the socket, if it did.
ClosedAt(socket) ==
    IF socket.type = "Tcp"
    THEN IF socket.state[1] = "ShutdownForWrite" THEN Some(socket.state[2]) ELSE None
    ELSE socket.closed_time

\* The driver enqueues one octet into a stored socket whose buffer is empty.
SockFill(handle) ==
    LET index == IndexOf(sockets, handle)
    IN /\ IsOk(index)
       /\ RingIsEmpty(sockets[index[2]][1].rx_buffer)
       /\ LET e == SocketRxEnqueueSlice(sockets[index[2]][1], <<1>>)
          IN /\ sockets' = SetStore(sockets, handle, e.s)
             /\ res' = [op |-> "rx_enqueue_slice", h |-> handle, arg |-> 1,
                        ret |-> "Ok", val |-> Some(e.ret), bytes |-> <<1>>]
       /\ UNCHANGED <<clock, tcp, unread, pollVars, ringVars, listener>>

\* The remote closes a stored socket that it has not closed before, early
\* enough for the driver's clock to pass the timeout.
SockClosedOnce(handle) ==
    LET index == IndexOf(sockets, handle)
    IN /\ IsOk(index)
       /\ clock <= MaxT0
       /\ ClosedAt(sockets[index[2]][1]) = None
       /\ SockClosedByRemote(handle)

NextEvict ==
    \/ \E id \in 0..(N - 1) : Add(TcpNew(id))
    \/ \E id \in 0..(N - 1) : Add(UdpNew(id))
    \/ \E h \in 0..(N - 1) : SockFill(h)
    \/ \E h \in 0..(N - 1) : SockClosedOnce(h)
    \/ Tick
    \/ Recycle(clock)

\* The driver's tick is periodic: time keeps passing and recycle keeps
\* being called.
SpecEvict ==
    InitEvict /\ [][NextEvict]_vars /\ WF_vars(Tick) /\ WF_vars(Recycle(clock))

(***************************************************************************)
(* Properties of the socket set, checked under Spec.                       *)
(***************************************************************************)
Occupied(set) == {i \in 1..Len(set) : set[i] # None}
\* The slots of set that hold a socket with this handle.
SlotsOf(set, handle) == {i \in Occupied(set) : SocketHandle(set[i][1]) = handle}
LowestOf(S) == CHOOSE i \in S : \A j \in S : i <= j
\* The socket the last add was called with.
AddedSocket(r) == IF r.ty = "Tcp" THEN TcpNew(r.h) ELSE UdpNew(r.h)

\* C1: in every reachable state of the set no two occupied slots hold
\* sockets that report the same handle.
C1_UniqueHandles ==
    \A i, j \in Occupied(sockets) :
        i # j => SocketHandle(sockets[i][1]) # SocketHandle(sockets[j][1])

\* C1 witness: the set is full after a successful add whose socket went
\* into slot 1, below an older socket.
C1_Witness ==
    /\ Occupied(sockets) = 1..N
    /\ res.op = "add" /\ res.ret = "Ok"
    /\ SocketHandle(sockets[1][1]) = res.h

\* C2: an add of a socket whose handle is already stored, in any slot and
\* under either protocol type, returns DuplicateSocket and changes no slot.
C2_DuplicateRejected ==
    [][(res'.op = "add" /\ SlotsOf(sockets, res'.h) # {})
        => /\ res'.ret = "DuplicateSocket"
           /\ sockets' = sockets
           /\ SetLen(sockets') = SetLen(sockets)]_vars

\* C2 witness: a duplicate add was rejected where the stored socket and the
\* offered one are of different protocol types, the stored one in slot 2.
C2_Witness ==
    /\ res.op = "add" /\ res.ret = "DuplicateSocket"
    /\ \E i \in SlotsOf(sockets, res.h) : i = N /\ SocketGetType(sockets[i][1]) # res.ty

\* C3 as stated: an add on a full set fails with SocketSetFull for every
\* socket offered, and changes nothing.
C3_FullAlwaysSocketSetFull ==
    [][(res'.op = "add" /\ Occupied(sockets) = 1..N)
        => (res'.ret = "SocketSetFull" /\ sockets' = sockets)]_vars

\* C3 amended: an add on a full set always fails and changes nothing; the
\* error is DuplicateSocket when the offered handle is already stored and
\* SocketSetFull otherwise.
C3_FullAlwaysFails ==
    [][(res'.op = "add" /\ Occupied(sockets) = 1..N)
        => /\ sockets' = sockets
           /\ res'.ret = IF SlotsOf(sockets, res'.h) # {}
                         THEN "DuplicateSocket"
                         ELSE "SocketSetFull"]_vars

\* C3 witness: an add of a new handle failed with SocketSetFull.
C3_Witness ==
    /\ res.op = "add" /\ res.ret = "SocketSetFull"
    /\ Occupied(sockets) = 1..N
    /\ SlotsOf(sockets, res.h) = {}

\* C4: when the handle is not stored and a slot is empty, add succeeds: the
\* socket goes into the lowest empty slot and nothing else changes, the
\* socket's own handle is returned, len() grows by one and get of the
\* socket's type on that handle succeeds.
C4_AddFillsLowestEmptySlot ==
    [][(res'.op = "add" /\ SlotsOf(sockets, res'.h) = {} /\ Occupied(sockets) # 1..N)
        => LET first == LowestOf((1..N) \ Occupied(sockets))
           IN /\ res'.ret = "Ok" /\ res'.val = Some(res'.h)
              /\ sockets' = [sockets EXCEPT ![first] = Some(AddedSocket(res'))]
              /\ SetLen(sockets') = SetLen(sockets) + 1
              /\ SetGet(sockets', res'.ty, res'.h) = Ok(AddedSocket(res'))]_vars

\* C4 witness: a successful add reused slot 1, freed while slot 2 stayed
\* occupied, and filled the set again.
C4_Witness ==
    /\ res.op = "add" /\ res.ret = "Ok" /\ res.val = Some(res.h)
    /\ Occupied(sockets) = 1..N
    /\ sockets[1] = Some(AddedSocket(res))

\* C5: get::<T>(h) on a stored handle succeeds, with the stored socket as
\* its view, iff the stored variant is T; a mismatched request fails with
\* Illegal; either way the set is unchanged.
C5_DowncastTypeSafe ==
    [][res'.op = "get"
        => /\ sockets' = sockets
           /\ \A i \in SlotsOf(sockets, res'.h) :
                 IF SocketGetType(sockets[i][1]) = res'.ty
                 THEN res'.ret = "Ok" /\ res'.view = Some(sockets[i][1])
                 ELSE res'.ret = "Illegal" /\ res'.view = None
           /\ res'.view # None => SocketGetType(res'.view[1]) = res'.ty]_vars

\* C5 witness: get::<TcpSocket> on a handle that holds a UdpSocket failed
\* with Illegal.
C5_Witness ==
    /\ res.op = "get" /\ res.ty = "Tcp" /\ res.ret = "Illegal" /\ res.view = None
    /\ \E i \in SlotsOf(sockets, res.h) : SocketGetType(sockets[i][1]) = "Udp"

\* C6: get and remove of a handle no slot holds fail with InvalidSocket and
\* change nothing; a remove of a stored handle succeeds, empties exactly the
\* slot holding it, lowers len() by one, makes get of that handle fail with
\* InvalidSocket, and leaves every other socket in its slot and retrievable;
\* and a handle that is not stored becomes stored only by an add of it.
C6_RemoveAndInvalidSocket ==
    [][/\ (res'.op \in {"get", "remove"} /\ SlotsOf(sockets, res'.h) = {})
          => (res'.ret = "InvalidSocket" /\ sockets' = sockets)
       /\ (res'.op = "remove" /\ SlotsOf(sockets, res'.h) # {})
          => /\ res'.ret = "Ok"
             /\ \E i \in SlotsOf(sockets, res'.h) : sockets' = [sockets EXCEPT ![i] = None]
             /\ SetLen(sockets') = SetLen(sockets) - 1
             /\ \A T \in SocketTypes : Tag(SetGet(sockets', T, res'.h)) = "InvalidSocket"
             /\ \A j \in Occupied(sockets') :
                   SetGet(sockets', SocketGetType(sockets'[j][1]),
                          SocketHandle(sockets'[j][1])) = Ok(sockets[j][1])
       /\ \A h \in Handles :
             (SlotsOf(sockets, h) = {} /\ SlotsOf(sockets', h) # {})
             => (res'.op = "add" /\ res'.h = h)]_vars

\* C6 witness: a remove succeeded on the socket of slot 1 and the socket of
\* slot 2 is still stored.
C6_Witness ==
    /\ res.op = "remove" /\ res.ret = "Ok"
    /\ Occupied(sockets) = {N}

\* C7: recycle(now) removes exactly the lowest-slot socket whose own
\* recycle(now) is true and returns true, leaving every other socket in
\* place; when no stored socket is stale it returns false and removes none.
C7_RecycleEvictsFirstStale ==
    [][res'.op = "recycle"
        => LET stale == {i \in Occupied(sockets) :
                            SocketRecycle(sockets[i][1], res'.ts, clock)}
           IN IF stale = {}
              THEN res'.flag = FALSE /\ sockets' = sockets
              ELSE /\ res'.flag = TRUE
                   /\ sockets' = [sockets EXCEPT ![LowestOf(stale)] = None]]_vars

\* C7 witness: a recycle evicted one socket and another stale socket is
\* still in a later slot.
C7_Witness ==
    /\ res.op = "recycle" /\ res.flag = TRUE
    /\ sockets[1] = None
    /\ \E i \in Occupied(sockets) : SocketRecycle(sockets[i][1], res.ts, clock)

(***************************************************************************)
(* Properties of one TcpSocket, checked under SpecTcp and SpecRecv.        *)
(***************************************************************************)
ReadOps == {"recv", "recv_slice", "recv_wrapping", "peek", "peek_slice"}

\* C8: recycle(now) of a TcpSocket in ShutdownForWrite(t0) with
\* read_timeout = T is true exactly when now - t0 >= T; in Created,
\* WaitingForConnect or Connected, or with no read_timeout, it is false for
\* every now.
C8_TcpRecycleAtTimeout ==
    res.op = "recycle"
    => IF tcp.state[1] = "ShutdownForWrite" /\ tcp.read_timeout # None
       THEN res.flag = (res.ts - tcp.state[2] >= tcp.read_timeout[1] * TIMER_HZ)
       ELSE res.flag = FALSE

\* C8 witness: recycle was asked exactly read_timeout after the close and
\* answered true.
C8_Witness ==
    /\ res.op = "recycle" /\ res.flag = TRUE
    /\ tcp.state[1] = "ShutdownForWrite"
    /\ res.ts - tcp.state[2] = READ_TIMEOUT_SECS * TIMER_HZ

C10_ClosedByRemoteKeepsData ==
    [][/\ res'.op = "closed_by_remote"
          => /\ tcp'.state = <<"ShutdownForWrite", res'.ts>>
             /\ tcp'.available_data = 0
             /\ tcp'.rx_buffer = tcp.rx_buffer
             /\ unread' = unread
       /\ (res'.op = "recv_slice" /\ tcp.state[1] = "ShutdownForWrite")
          => /\ res'.ret = "Ok"
             /\ res'.bytes = SubSeq(unread, 1, Min(res'.arg, Len(unread)))
             /\ res'.val = Some(Len(res'.bytes))]_vars

\* C10 witness: on a socket closed by the remote side, recv_slice returned
\* two different octets that had been enqueued.
C10_Witness ==
    /\ res.op = "recv_slice" /\ res.ret = "Ok"
    /\ tcp.state[1] = "ShutdownForWrite"
    /\ Len(res.bytes) = 2 /\ res.bytes[1] # res.bytes[2]

(***************************************************************************)
(* Properties of the availability poll, checked under SpecPoll.            *)
(***************************************************************************)
\* The check interval of a TcpSocket, in timer ticks.
TcpCheckIntervalTicks(s) == s.check_interval * TIMER_HZ

\* C11: a poll of a TcpSocket that is not Connected returns false and
\* changes nothing; a poll of a Connected one, at non-decreasing instants,
\* sets last_check_time to now exactly when it returns true and leaves it
\* alone otherwise, and a poll that returns true comes at least
\* check_interval after the previous poll that returned true.
C11_PollAtMostOncePerInterval ==
    [][res'.op \in {"should_update", "poll_both"}
        => IF ~TcpIsConnected(tcp)
           THEN res'.flag = FALSE /\ tcp' = tcp
           ELSE /\ res'.flag => tcp'.last_check_time = Some(res'.ts)
                /\ ~res'.flag => tcp'.last_check_time = tcp.last_check_time
                /\ (res'.flag /\ fired # <<>>)
                   => res'.ts - fired[Len(fired)] >= TcpCheckIntervalTicks(tcp)]_vars

\* C11 witness: the last two polls that returned true are exactly
\* check_interval apart.
C11_Witness ==
    /\ res.op = "should_update" /\ res.flag = TRUE
    /\ Len(fired) = 2
    /\ fired[2] - fired[1] = TcpCheckIntervalTicks(tcp)
    /\ fired[2] = res.ts

\* C12: polled side by side from the same last_check_time, a UdpSocket and
\* a Connected TcpSocket return the same boolean and keep the same
\* last_check_time.
C12_UdpPollsLikeTcp ==
    [][(res'.op = "poll_both" /\ TcpIsConnected(tcp)
        /\ tcp.last_check_time = udp.last_check_time
        /\ TcpCheckIntervalTicks(tcp) = udp.check_interval)
        => /\ res'.flag = res'.flag2
           /\ tcp'.last_check_time = udp'.last_check_time]_vars

(***************************************************************************)
(* Properties of one UdpSocket, checked under SpecUdp and SpecUdpRecv.     *)
(***************************************************************************)
\* C13: recycle of a UdpSocket is true exactly when closed_by_remote has
\* been called, read_timeout is set and at least read_timeout has passed
\* since the last closed_by_remote; the Closed/Established state and the
\* bound endpoint play no part.
C13_UdpRecycleAtTimeout ==
    res.op = "recycle"
    => IF udp.closed_time # None /\ udp.read_timeout # None
       THEN res.flag = (res.ts - udp.closed_time[1] >= udp.read_timeout[1])
       ELSE res.flag = FALSE

\* C13 witness: recycle answered true exactly read_timeout after the remote
\* close, on a socket that is Established and bound.
C13_Witness ==
    /\ res.op = "recycle" /\ res.flag = TRUE
    /\ udp.state = "Established" /\ UdpIsOpen(udp)
    /\ res.ts - udp.closed_time[1] = READ_TIMEOUT_SECS * TIMER_HZ

UdpReadOps == {"recv", "recv_slice", "peek", "peek_slice"}

C16_RingLenWithinCapacity ==
    /\ RingLen(ring) <= RingCapacity(ring)
    /\ RingWindow(ring) + RingLen(ring) = RingCapacity(ring)
    /\ RingWindow(ring) >= 0
    /\ RingLen(ring) = Len(enq) - Len(deq)

\* C16 witness: an enqueue_slice of more octets than the window took only
\* what fitted and filled the buffer.
C16_Witness ==
    /\ res.op = "enqueue_slice" /\ res.val # Some(res.arg)
    /\ res.val # Some(0)
    /\ RingIsFull(ring) /\ RingWindow(ring) = 0

\* C17: the octets the dequeues returned are, in order, a prefix of the
\* octets enqueue_slice accepted, and the whole of them once the buffer is
\* empty.
C17_RingLosslessFifo ==
    /\ Len(deq) <= Len(enq)
    /\ deq = SubSeq(enq, 1, Len(deq))
    /\ RingIsEmpty(ring) => deq = enq

\* C17 witness: a dequeue_slice returned two different octets that lay
\* across the wrap boundary, and drained the buffer.
C17_Witness ==
    /\ res.op = "dequeue_slice" /\ Len(res.bytes) >= 2
    /\ res.bytes[1] # res.bytes[2]
    /\ 0 < ring.read_at /\ ring.read_at < Len(res.bytes)
    /\ RingIsEmpty(ring) /\ deq = enq

(***************************************************************************)
(* Properties of the receive path through the set, checked under SpecRx.   *)
(***************************************************************************)
\* C18: rx_enqueue_slice(data) on a socket of either type never fails; it
\* returns the smaller of len(data) and rx_window() before the call, appends
\* that many leading octets of data behind the octets already held, lowers
\* rx_window() by the count returned, changes nothing else of the socket,
\* and with a full buffer returns 0 and changes nothing at all.
C18_RxEnqueueTakesWhatFits ==
    [][res'.op = "rx_enqueue_slice"
        => LET i == LowestOf(SlotsOf(sockets, res'.h))
               before == sockets[i][1]
               after == sockets'[i][1]
               window == SocketRxWindow(before)
               n == Min(Len(res'.bytes), window)
           IN /\ res'.ret = "Ok" /\ res'.val = Some(n)
              /\ RingContents(after.rx_buffer)
                    = RingContents(before.rx_buffer) \o SubSeq(res'.bytes, 1, n)
              /\ SocketRxWindow(after) = window - n
              /\ after = [before EXCEPT !.rx_buffer = after.rx_buffer]
              /\ window = 0 => (res'.val = Some(0) /\ sockets' = sockets)]_vars

\* C18 witness: a UdpSocket with no endpoint bound took the part of a slice
\* that fitted behind the octet it held, which filled its buffer.
C18_Witness ==
    /\ res.op = "rx_enqueue_slice"
    /\ res.val # Some(0) /\ res.val # Some(res.arg)
    /\ \E i \in SlotsOf(sockets, res.h) :
          /\ SocketGetType(sockets[i][1]) = "Udp"
          /\ ~UdpIsOpen(sockets[i][1])
          /\ SocketRxWindow(sockets[i][1]) = 0
          /\ RingLen(sockets[i][1].rx_buffer) > res.val[1]

(***************************************************************************)
(* Properties of a listener, checked under SpecListener.                   *)
(***************************************************************************)
\* The handles of the listener l that are bound to port.
BoundTo(l, port) == {h \in Handles : l.handles[h] = Some(port)}

\* C19: a push into the queue of a port puts the entry behind the pending
\* ones and makes available true for the handles bound to the port;
\* accept (TCP) and get_remote (UDP) on a bound handle return the oldest
\* pending entry and remove it, leaving the rest in order; on an empty
\* queue available is false and accept and get_remote fail; on a handle
\* that is not bound available, accept and get_remote all fail.
C19_ListenerQueueFifo ==
    [][/\ (res'.op = "push" /\ res'.ret = "Ok")
          => /\ listener'.connections[res'.arg]
                   = Some(Append(listener.connections[res'.arg][1], res'.item[1]))
             /\ \A h \in BoundTo(listener', res'.arg) :
                   ListenerAvailable(listener', h, "ListenerError") = Ok(TRUE)
       /\ res'.op \in {"available", "accept", "get_remote"}
          => IF listener.handles[res'.h] = None
             THEN res'.ret # "Ok" /\ listener' = listener
             ELSE LET port == listener.handles[res'.h][1]
                      q == listener.connections[port]
                  IN q # None
                     => IF res'.op = "available"
                        THEN res'.ret = "Ok" /\ res'.flag = (q[1] # <<>>)
                        ELSE IF q[1] = <<>>
                        THEN /\ res'.ret # "Ok" /\ res'.item = None
                             /\ listener' = listener
                        ELSE /\ res'.ret = "Ok" /\ res'.item = Some(Head(q[1]))
                             /\ listener'
                                   = [listener EXCEPT
                                         !.connections[port] = Some(Tail(q[1]))]]_vars

\* C19 witness: accept or get_remote returned the older of two different
\* pending entries and the newer one is still queued.
C19_Witness ==
    /\ res.op \in {"accept", "get_remote"} /\ res.ret = "Ok"
    /\ listener.handles[res.h] # None
    /\ LET q == listener.connections[listener.handles[res.h][1]]
       IN q # None /\ Len(q[1]) = 1 /\ Some(q[1][1]) # res.item

\* C20: in every state a bind and unbind sequence reaches, a port is a key
\* of the port-to-queue mapping iff some handle is bound to it.
C20_PortKeyIffBound ==
    \A p \in Ports : (listener.connections[p] # None) <=> (BoundTo(listener, p) # {})

\* The sequence a is the front of the sequence b.
IsPrefix(a, b) == Len(a) <= Len(b) /\ SubSeq(b, 1, Len(a)) = a

\* C21: a pending entry pushed into the queue of a port stays there, at the
\* same place among the pending entries, until accept, get_remote or
\* get_outgoing on a handle bound to the port returns it or unbind of a
\* handle bound to the port discards it: every other step, a bind of
\* another handle included, keeps the pending entries of the port at the
\* front of its queue, and a step that returns an entry takes the head only.
C21_PendingEntryStays ==
    [][\A p \in Ports :
          (listener.connections[p] # None /\ listener.connections[p][1] # <<>>)
          => LET q == listener.connections[p][1]
             IN IF /\ res'.op \in {"accept", "get_remote", "get_outgoing", "unbind"}
                   /\ listener.handles[res'.h] = Some(p)
                THEN res'.op # "unbind"
                     => /\ listener'.connections[p] # None
                        /\ listener'.connections[p][1] \in {q, Tail(q)}
                ELSE /\ listener'.connections[p] # None
                     /\ IsPrefix(q, listener'.connections[p][1])]_vars

\* C22: bind(handle, port) fails when the handle is already bound to a port
\* or when a bounded map has no room for the new key, and a failing bind
\* leaves both mappings and every pending queue as they were; a bind that
\* succeeds records handle -> port and incoming(port) gives a queue.
C22_BindFailsCleanly ==
    [][res'.op = "bind"
       => LET noRoom ==
                 \/ MapLen(listener.handles) >= ListenerN
                 \/ /\ listener.connections[res'.arg] = None
                    /\ MapLen(listener.connections) >= ListenerN
          IN IF listener.handles[res'.h] # None \/ noRoom
             THEN res'.ret # "Ok" /\ listener' = listener
             ELSE /\ res'.ret = "Ok"
                  /\ listener'.handles
                        = [listener.handles EXCEPT ![res'.h] = Some(res'.arg)]
                  /\ ListenerIncoming(listener', res'.arg) # None]_vars

\* C22 witness: a bind of a handle that is not bound failed for want of
\* room while an entry is pending, and a bind of a bound handle failed.
C22_Witness ==
    /\ res.op = "bind" /\ res.ret # "Ok"
    /\ listener.handles[res.h] = None
    /\ MapLen(listener.handles) = ListenerN
    /\ \E p \in Ports : listener.connections[p] # None /\ listener.connections[p][1] # <<>>

\* C23: get_outgoing(handle, addr) returns the socket handle of the head
\* entry and removes that head iff the handle is bound, its queue is not
\* empty and the address of the head equals addr; in every other case (a
\* handle that is not bound, an empty queue, another address at the head,
\* the address only behind the head) it returns none and the listener is
\* as it was.
C23_GetOutgoingHeadOnly ==
    [][res'.op = "get_outgoing"
       => LET q == ListenerQueueOf(listener, res'.h, "ListenerError")
          IN IF IsOk(q) /\ q[2] # <<>> /\ Head(q[2])[2] = res'.arg
             THEN /\ res'.val = Some(Head(q[2])[1])
                  /\ listener'
                        = [listener EXCEPT
                              !.connections[listener.handles[res'.h][1]] = Some(Tail(q[2]))]
             ELSE res'.val = None /\ listener' = listener]_vars

\* C23 witness: get_outgoing returned none on a bound handle whose queue has
\* the address behind a head with another address.
C23_Witness ==
    /\ res.op = "get_outgoing" /\ res.val = None
    /\ listener.handles[res.h] # None
    /\ LET q == listener.connections[listener.handles[res.h][1]]
       IN /\ q # None /\ Len(q[1]) = 2
          /\ q[1][1][2] # res.arg
          /\ q[1][2][2] = res.arg

\* C24: unbind(h) on a bound handle removes the handle entry and the queue
\* of its port with the entries pending there, after which is_bound(h) is
\* false, available(h), get_remote(h) and peek_remote(h) fail and
\* bind(h, p) succeeds again with an empty queue; unbind of a handle that is
\* not bound fails and changes nothing; unbind(h) changes neither the
\* binding nor the pending queue of any other bound handle.
C24_UnbindOnlyItsOwn ==
    [][res'.op = "unbind"
       => IF listener.handles[res'.h] = None
          THEN res'.ret # "Ok" /\ listener' = listener
          ELSE /\ res'.ret = "Ok"
               /\ listener'.handles[res'.h] = None
               /\ listener'.connections[listener.handles[res'.h][1]] = None
               /\ ~UdpListenerIsBound(listener', res'.h)
               /\ IsErr(UdpListenerAvailable(listener', res'.h))
               /\ IsErr(UdpListenerGetRemote(listener', res'.h).ret)
               /\ IsErr(UdpListenerPeekRemote(listener', res'.h))
               /\ \A p \in Ports :
                     LET b == UdpListenerBind(listener', res'.h, p)
                     IN IsOk(b.ret) /\ ListenerIncoming(b.l, p) = Some(<<>>)
               /\ \A h2 \in Handles \ {res'.h} :
                     listener.handles[h2] # None
                     => /\ listener'.handles[h2] = listener.handles[h2]
                        /\ ListenerQueueOf(listener', h2, "ListenerError")
                              = ListenerQueueOf(listener, h2, "ListenerError")]_vars

\* k adds of fresh sockets with the handles k - 1, ..., 0 all succeed on set.
RECURSIVE AddsSucceed(_, _)
AddsSucceed(set, k) ==
    IF k = 0 THEN TRUE
    ELSE LET r == SetAdd(set, IF k % 2 = 0 THEN TcpNew(k - 1) ELSE UdpNew(k - 1))
         IN IsOk(r.ret) /\ AddsSucceed(r.set, k - 1)

\* C25: prune empties every slot whatever the states of the sockets: after
\* it len() is 0, is_empty() holds, get, remove and socket_type fail or give
\* none for every handle, the capacity is still N and N further adds with
\* distinct handles succeed.
C25_PruneEmptiesAll ==
    [][res'.op = "prune"
       => /\ SetLen(sockets') = 0
          /\ SetIsEmpty(sockets')
          /\ Len(sockets') = N /\ SetCapacity(sockets') = N
          /\ \A h \in Handles :
                /\ SetSocketType(sockets', h) = None
                /\ IsErr(SetRemove(sockets', h).ret)
                /\ \A T \in SocketTypes : IsErr(SetGet(sockets', T, h))
          /\ AddsSucceed(sockets', N)]_vars

\* C25 witness: prune was called on a full set and the set is empty.
C25_Witness ==
    /\ res.op = "prune" /\ res.arg = N
    /\ SetLen(sockets) = 0

\* The remote closed the socket and its read_timeout has elapsed at now.
ClosedLongAgo(socket, now) ==
    IF socket.type = "Tcp"
    THEN /\ socket.state[1] = "ShutdownForWrite"
         /\ socket.read_timeout # None
         /\ now >= socket.state[2]
         /\ now - socket.state[2] >= socket.read_timeout[1] * TIMER_HZ
    ELSE /\ socket.closed_time # None
         /\ socket.read_timeout # None
         /\ now >= socket.closed_time[1]
         /\ now - socket.closed_time[1] >= socket.read_timeout[1]

\* C28: recycle(now) of the set never removes a socket that is not stale (a
\* TcpSocket that is Created, WaitingForConnect or Connected, any socket
\* whose read_timeout has not elapsed since the remote close), though its
\* buffer is empty; when no stored socket is stale it returns false and the
\* set is as it was.
C28_RecycleKeepsFresh ==
    [][res'.op = "recycle"
       => LET fresh == {i \in Occupied(sockets) : ~ClosedLongAgo(sockets[i][1], res'.ts)}
          IN /\ \A i \in fresh : sockets'[i] = sockets[i]
             /\ fresh = Occupied(sockets)
                => res'.flag = FALSE /\ sockets' = sockets]_vars

\* C28 witness: a recycle evicted a socket and kept one that the remote
\* closed less than read_timeout ago, whose buffer is empty.
C28_Witness ==
    /\ res.op = "recycle" /\ res.flag = TRUE
    /\ \E i \in Occupied(sockets) :
          /\ IF sockets[i][1].type = "Tcp"
             THEN sockets[i][1].state[1] = "ShutdownForWrite"
             ELSE sockets[i][1].closed_time # None
          /\ ~ClosedLongAgo(sockets[i][1], res.ts)
          /\ RingIsEmpty(sockets[i][1].rx_buffer)

\* C26: peek_slice behaves as recv_slice does, except that it does not
\* consume: for every state of the buffer, one whose readable octets wrap
\* around the physical end included, and every output length, peek_slice
\* returns the count and the octets recv_slice would return on that state,
\* and leaves the contents of the buffer, len() and rx_window() unchanged.
C26_PeekSliceLikeRecvSlice ==
    [][res'.op = "peek_slice"
       => LET r == TcpRecvSlice(tcp, res'.arg)
          IN /\ res'.ret = Tag(r.ret)
             /\ res'.val = Val(r.ret)
             /\ res'.bytes = r.bytes
             /\ RingContents(tcp'.rx_buffer) = RingContents(tcp.rx_buffer)
             /\ RingLen(tcp'.rx_buffer) = RingLen(tcp.rx_buffer)
             /\ TcpRxWindow(tcp') = TcpRxWindow(tcp)]_vars

(***************************************************************************)
(* Properties of the socket set with update_handle, checked under          *)
(* SpecHandle.                                                             *)
(***************************************************************************)
\* C27: in every reachable state of the set, also after the handle of a
\* stored UdpSocket is changed with update_handle through a reference
\* obtained from get, at most one stored socket has any given handle, so
\* get(h), remove(h) and socket_type(h) address a single socket.
C27_UniqueHandlesWithUpdate ==
    \A h \in Handles : Cardinality(SlotsOf(sockets, h)) <= 1

(***************************************************************************)
(* Properties of the poll of one stored socket, checked under SpecPollOne. *)
(***************************************************************************)
\* The check interval of a socket, in timer ticks.
CheckIntervalTicks(socket) ==
    IF socket.type = "Tcp" THEN TcpCheckIntervalTicks(socket) ELSE socket.check_interval

\* C30: for a UdpSocket as for a Connected TcpSocket polled at strictly
\* advancing instants, whatever the period, a poll returns true no later
\* than the first poll made check_interval or more after the previous poll
\* that returned true: a poll that late returns true.
C30_PollFiresWhenDue ==
    [][(res'.op = "should_update" /\ fired # <<>>)
       => LET socket == sockets[1][1]
          IN (/\ socket.type = "Tcp" => TcpIsConnected(socket)
              /\ res'.ts - fired[Len(fired)] >= CheckIntervalTicks(socket))
             => res'.flag = TRUE]_vars

(***************************************************************************)
(* Properties of the eviction by the driver, checked under SpecEvict.      *)
(***************************************************************************)
\* The stored sockets that are stale at now.
StaleSlots(set, now) == {i \in Occupied(set) : ClosedLongAgo(set[i][1], now)}

\* A socket with the handle h is stored, has a read_timeout and was closed
\* by the remote early enough for the clock to pass its timeout.
Doomed(h) ==
    \E i \in SlotsOf(sockets, h) :
       /\ sockets[i][1].read_timeout # None
       /\ ClosedAt(sockets[i][1]) # None
       /\ ClosedAt(sockets[i][1])[1] <= MaxT0

\* C29: a stored socket with a read_timeout that the remote closed at t0,
\* and that no later set_state or closed_by_remote touches, is eventually
\* removed from the set, unread octets or not, when the driver keeps
\* calling recycle(now) with instants that advance past t0 + read_timeout,
\* and its slot can then be added to; with k stale sockets each recycle
\* call removes one of them and returns true, and with none it returns
\* false.  A stored socket stops being doomed only by leaving the set, so
\* the first conjunct says that every doomed socket is eventually removed.
C29_StaleEventuallyEvicted ==
    /\ (\E h \in Handles : Doomed(h)) ~> (\A h \in Handles : ~Doomed(h))
    /\ [][res'.op = "recycle"
          => LET k == Cardinality(StaleSlots(sockets, res'.ts))
             IN IF k = 0 THEN res'.flag = FALSE
                ELSE /\ res'.flag = TRUE
                     /\ Cardinality(StaleSlots(sockets', res'.ts)) = k - 1
                     /\ SetLen(sockets') = SetLen(sockets) - 1
                     /\ \E id \in Handles : IsOk(SetAdd(sockets', TcpNew(id)).ret)]_vars

\* C29 witness: a recycle evicted a socket that held unread octets, the
\* last stale one of a full set.
C29_Witness ==
    /\ res.op = "recycle" /\ res.flag = TRUE
    /\ res.val # None /\ res.val[1] > 0
    /\ SetLen(sockets) = 0
    /\ StaleSlots(sockets, clock) = {}

(***************************************************************************)
(* Lookup consistency of the socket set, checked under Spec.               *)
(***************************************************************************)
\* The k-th occupied slot of set, counted from slot 1.
KthOccupied(set, k) ==
    CHOOSE i \in Occupied(set) : Cardinality({j \in Occupied(set) : j <= i}) = k

\* C31: in every reachable state the set has exactly N slots, len() is the
\* number of occupied slots and at most N, and for every handle these
\* agree: the handle appears in iter(), socket_type is not none, get of the
\* type socket_type names succeeds, and remove would succeed; iter() yields
\* the stored sockets in slot order, each with the handle it reports.
C31_LookupConsistent ==
    LET it == SetIter(sockets)
    IN /\ Len(sockets) = N
       /\ SetLen(sockets) = Cardinality(Occupied(sockets))
       /\ SetLen(sockets) <= N
       /\ \A h \in Handles :
             LET inIter == \E k \in 1..Len(it) : it[k][1] = h
                 sty == SetSocketType(sockets, h)
                 getOk == sty # None /\ IsOk(SetGet(sockets, sty[1], h))
                 removeOk == IsOk(SetRemove(sockets, h).ret)
             IN /\ inIter <=> (sty # None)
                /\ (sty # None) <=> getOk
                /\ getOk <=> removeOk
       /\ Len(it) = SetLen(sockets)
       /\ \A k \in 1..Len(it) :
             /\ it[k][2] = sockets[KthOccupied(sockets, k)][1]
             /\ it[k][1] = SocketHandle(it[k][2])

\* C31 witness: a full set of sockets of both types whose handles run
\* against the slot order, after a remove and an add filled slot 1 again.
C31_Witness ==
    /\ res.op = "add" /\ res.ret = "Ok"
    /\ Occupied(sockets) = 1..N
    /\ SocketHandle(sockets[1][1]) = res.h
    /\ SocketHandle(sockets[1][1]) > SocketHandle(sockets[N][1])
    /\ SocketGetType(sockets[1][1]) # SocketGetType(sockets[N][1])
    /\ SetIter(sockets)[1][1] = res.h
====
